---- MODULE Spec2Model ----
(***************************************************************************)
(* Model of the meeting analysis pipeline of src/transcribe.py             *)
(* (MeetingTranscriber): segment post-processing, summarisation, action    *)
(* item extraction with its pattern fallback, and report assembly.         *)
(*                                                                         *)
(* Program strings are sequences of one-character strings, so that         *)
(* slicing, stripping, joining and JSON decoding are computed on them.     *)
(* Python values (what json.loads returns, and the dictionaries and lists  *)
(* the program builds) are tagged records:                                 *)
(*   [t |-> "null"], [t |-> "bool", b], [t |-> "int", n],                  *)
(*   [t |-> "float", n, d]  (the number n/d), [t |-> "str", s],            *)
(*   [t |-> "arr", items], [t |-> "obj", f]  (f maps keys to values).      *)
(***************************************************************************)
EXTENDS Integers, Sequences, FiniteSets, TLC

\* Dictionary keys used by the program, as character sequences.
K ==
  [ speaker |-> <<"s","p","e","a","k","e","r">>,
    start_time |-> <<"s","t","a","r","t","_","t","i","m","e">>,
    end_time |-> <<"e","n","d","_","t","i","m","e">>,
    text |-> <<"t","e","x","t">>,
    confidence |-> <<"c","o","n","f","i","d","e","n","c","e">>,
    executive_summary |-> <<"e","x","e","c","u","t","i","v","e","_","s","u","m","m","a","r","y">>,
    key_points |-> <<"k","e","y","_","p","o","i","n","t","s">>,
    decisions |-> <<"d","e","c","i","s","i","o","n","s">>,
    participants |-> <<"p","a","r","t","i","c","i","p","a","n","t","s">>,
    follow_up_topics |-> <<"f","o","l","l","o","w","_","u","p","_","t","o","p","i","c","s">>,
    title |-> <<"t","i","t","l","e">>,
    description |-> <<"d","e","s","c","r","i","p","t","i","o","n">>,
    assignee |-> <<"a","s","s","i","g","n","e","e">>,
    due_date |-> <<"d","u","e","_","d","a","t","e">>,
    priority |-> <<"p","r","i","o","r","i","t","y">>,
    category |-> <<"c","a","t","e","g","o","r","y">>,
    context |-> <<"c","o","n","t","e","x","t">>,
    id |-> <<"i","d">>,
    status |-> <<"s","t","a","t","u","s">>,
    created_at |-> <<"c","r","e","a","t","e","d","_","a","t">>,
    error |-> <<"e","r","r","o","r">>,
    meeting_info |-> <<"m","e","e","t","i","n","g","_","i","n","f","o">>,
    date |-> <<"d","a","t","e">>,
    duration_minutes |-> <<"d","u","r","a","t","i","o","n","_","m","i","n","u","t","e","s">>,
    language |-> <<"l","a","n","g","u","a","g","e">>,
    transcription |-> <<"t","r","a","n","s","c","r","i","p","t","i","o","n">>,
    full_text |-> <<"f","u","l","l","_","t","e","x","t">>,
    segments |-> <<"s","e","g","m","e","n","t","s">>,
    summary |-> <<"s","u","m","m","a","r","y">>,
    action_items |-> <<"a","c","t","i","o","n","_","i","t","e","m","s">>,
    stats |-> <<"s","t","a","t","s">>,
    total_segments |-> <<"t","o","t","a","l","_","s","e","g","m","e","n","t","s">>,
    total_action_items |-> <<"t","o","t","a","l","_","a","c","t","i","o","n","_","i","t","e","m","s">>,
    high_priority_items |-> <<"h","i","g","h","_","p","r","i","o","r","i","t","y","_","i","t","e","m","s">>,
    start |-> <<"s","t","a","r","t">>,
    end |-> <<"e","n","d">>,
    avg_logprob |-> <<"a","v","g","_","l","o","g","p","r","o","b">>,
    duration |-> <<"d","u","r","a","t","i","o","n">> ]

\* String literals of the program and of its inputs.
Lit ==
  [ speaker_prefix |-> <<"S","p","e","a","k","e","r"," ">>,
    ellipsis |-> <<".",".",".">>,
    error_summary |-> <<"E","r","r","o","r"," ","g","e","n","e","r","a","t","i","n","g"," ","s","u","m","m","a","r","y">>,
    error_transcribe |-> <<"F","a","i","l","e","d"," ","t","o"," ","t","r","a","n","s","c","r","i","b","e"," ","a","u","d","i","o">>,
    unassigned |-> <<"U","n","a","s","s","i","g","n","e","d">>,
    medium |-> <<"M","e","d","i","u","m">>,
    follow_up |-> <<"F","o","l","l","o","w","-","u","p">>,
    extracted |-> <<"E","x","t","r","a","c","t","e","d"," ","f","r","o","m"," ","t","r","a","n","s","c","r","i","p","t">>,
    follow_up_item |-> <<"F","o","l","l","o","w","-","u","p"," ","I","t","e","m">>,
    pending |-> <<"p","e","n","d","i","n","g">>,
    high |-> <<"H","i","g","h">>,
    team_member |-> <<"T","e","a","m"," ","M","e","m","b","e","r">>,
    hi_padded |-> <<" ","h","i"," ">>,
    midnight_space |-> <<" ","0","0",":","0","0",":","0","0">>,
    midnight_t |-> <<"T","0","0",":","0","0",":","0","0">>,
    en |-> <<"e","n">>,
    meeting |-> <<"M","e","e","t","i","n","g">>,
    ann |-> <<"A","n","n">> ]

(***************************************************************************)
(* Bounds of the model.                                                    *)
(***************************************************************************)
\* Longest segment list handed to process_segments in SpecSeg.
MaxSegs == 4
\* Last day the modelled clock reaches (days after BaseDate).
MaxDay == 1

(***************************************************************************)
(* Program constants.                                                      *)
(***************************************************************************)
\* if segment["start"] - last_end_time > 2.0
GapThreshold == 2
\* summary_text[:500]
SummaryLimit == 500
\* match.group(1)[:100]
TitleLimit == 100
\* action_items[:10]
MaxItems == 10
\* timedelta(days=7)
DueDays == 7
\* Times are floats in seconds; the model counts them in units of
\* 1/UnitsPerSecond second, which represents halves exactly.
UnitsPerSecond == 2

(***************************************************************************)
(* Python values.                                                          *)
(***************************************************************************)
JNull == [t |-> "null"]
JBool(b) == [t |-> "bool", b |-> b]
JInt(n) == [t |-> "int", n |-> n]
JFloat(n, d) == [t |-> "float", n |-> n, d |-> d]
JStr(s) == [t |-> "str", s |-> s]
JArr(items) == [t |-> "arr", items |-> items]
JObj(f) == [t |-> "obj", f |-> f]

\* The element of a one-element set.  Binding a value through {v} makes TLC
\* compute it once, where a LET would compute it at every use.
The(S) == CHOOSE x \in S : TRUE

EmptyDict == [k \in {} |-> JNull]
\* d[key] = value on a Python dict
DictSet(f, key, value) ==
  The({ [k \in DOMAIN g \cup {key} |-> IF k = key THEN value ELSE g[k]] :
        g \in {f} })

\* {k1: v1, k2: v2, ...} from a sequence of <<key, value>> pairs; a repeated
\* key keeps its last value
DictOf(pairs) ==
  The({ [k \in {p[i][1] : i \in DOMAIN p} |->
           p[CHOOSE i \in DOMAIN p :
               /\ p[i][1] = k
               /\ \A j \in DOMAIN p : p[j][1] = k => j <= i][2]] :
        p \in {pairs} })

IsDict(v) == v.t = "obj"
IsList(v) == v.t = "arr"
IsStrV(v) == v.t = "str"
\* d.get(key, default) on a dict d
DictGet(v, key, default) == IF key \in DOMAIN v.f THEN v.f[key] ELSE default
\* Python truthiness (bool(v))
Truthy(v) ==
  CASE v.t = "null" -> FALSE
    [] v.t = "bool" -> v.b
    [] v.t = "int" -> v.n # 0
    [] v.t = "float" -> v.n # 0
    [] v.t = "str" -> v.s # <<>>
    [] v.t = "arr" -> v.items # <<>>
    [] v.t = "obj" -> DOMAIN v.f # {}

(***************************************************************************)
(* Strings.                                                                *)
(***************************************************************************)
Min(a, b) == IF a < b THEN a ELSE b
\* s[:n]
Prefix(s, n) == SubSeq(s, 1, Min(n, Len(s)))
IsWs(c) == c \in {" ", "\n"}

RECURSIVE LStrip(_)
LStrip(s) == IF s # <<>> /\ IsWs(Head(s)) THEN LStrip(Tail(s)) ELSE s
RECURSIVE RStrip(_)
RStrip(s) ==
  IF s # <<>> /\ IsWs(s[Len(s)]) THEN RStrip(SubSeq(s, 1, Len(s) - 1)) ELSE s
\* s.strip()
Strip(s) == RStrip(LStrip(s))

Digits == <<"0", "1", "2", "3", "4", "5", "6", "7", "8", "9">>
IsDigit(c) == \E d \in 1..10 : Digits[d] = c
DigitVal(c) == (CHOOSE d \in 1..10 : Digits[d] = c) - 1

RECURSIVE IntToStr(_)
\* str(n) for n >= 0
IntToStr(n) ==
  IF n < 10 THEN <<Digits[n + 1]>>
  ELSE IntToStr(n \div 10) \o <<Digits[(n % 10) + 1]>>

RECURSIVE ZeroPad(_, _)
\* the %02d / %04d of strftime
ZeroPad(s, width) == IF Len(s) >= width THEN s ELSE ZeroPad(<<"0">> \o s, width)

(***************************************************************************)
(* json.loads on a subset of JSON: null, true, false, integers, decimal    *)
(* fractions without exponent, strings with the escapes for the            *)
(* characters of the model, arrays and objects, with spaces and newlines   *)
(* as white space.  A result r has r.ok = FALSE where json.loads raises    *)
(* JSONDecodeError.                                                        *)
(***************************************************************************)
ParseFail == [ok |-> FALSE, v |-> JNull, i |-> 0]
ParseOk(v, i) == [ok |-> TRUE, v |-> v, i |-> i]

RECURSIVE SkipWs(_, _)
SkipWs(s, i) == IF i <= Len(s) /\ IsWs(s[i]) THEN SkipWs(s, i + 1) ELSE i

\* The characters of the model that are not ASCII: U+00E9, and the lone
\* surrogate U+D800, for which one token stands.
Ch == [eacute |-> "é", surrogate |-> "<U+D800>"]

HexDigits ==
  <<"0", "1", "2", "3", "4", "5", "6", "7", "8", "9", "a", "b", "c", "d", "e", "f",
    "A", "B", "C", "D", "E", "F">>
IsHex(c) == \E d \in 1..22 : HexDigits[d] = c
HexVal(c) ==
  The({ IF d <= 16 THEN d - 1 ELSE d - 7 : d \in {e \in 1..22 : HexDigits[e] = c} })
\* int(esc, 16) of the four digits after \u
HexCode(esc) ==
  ((HexVal(esc[1]) * 16 + HexVal(esc[2])) * 16 + HexVal(esc[3])) * 16 + HexVal(esc[4])
\* chr(code), for the code points of the model's characters
CodePoints == {233, 55296}
Chr(code) == IF code = 233 THEN Ch.eacute ELSE Ch.surrogate
\* what backslash followed by c stands for (BACKSLASH in json.decoder)
SimpleEscapes == {"\"", "\\", "/", "n", "t", "r", "f"}
Unescape(c) ==
  CASE c = "n" -> "\n"
    [] c = "t" -> "\t"
    [] c = "r" -> "\r"
    [] c = "f" -> "\f"
    [] OTHER -> c

\* the characters that end a run of plain characters inside a string: the
\* quote, the backslash and the control characters
StringStops == {"\"", "\\", "\n", "\t", "\r", "\f"}
\* index of the first of them at or after i; 0 when there is none
ScanString(s, i) ==
  IF \E j \in i..Len(s) : s[j] \in StringStops
    THEN CHOOSE j \in i..Len(s) :
           /\ s[j] \in StringStops
           /\ \A k \in i..(j - 1) : s[k] \notin StringStops
    ELSE 0

RECURSIVE ReadString(_, _, _)
\* py_scanstring from index i inside a string, acc being what was read so
\* far: an unterminated string, a raw control character and an escape
\* json.loads does not know fail
ReadString(s, i, acc) ==
  The({ IF j = 0 THEN ParseFail
        ELSE IF s[j] \notin {"\"", "\\"} THEN ParseFail
        ELSE
          The({ IF s[j] = "\"" THEN ParseOk(JStr(read), j + 1)
                ELSE IF j + 1 > Len(s) THEN ParseFail
                ELSE IF s[j + 1] = "u" THEN
                  IF /\ j + 5 <= Len(s)
                     /\ \A k \in (j + 2)..(j + 5) : IsHex(s[k])
                     /\ HexCode(SubSeq(s, j + 2, j + 5)) \in CodePoints
                    THEN ReadString(s, j + 6,
                           Append(read, Chr(HexCode(SubSeq(s, j + 2, j + 5)))))
                    ELSE ParseFail
                ELSE IF s[j + 1] \in SimpleEscapes
                  THEN ReadString(s, j + 2, Append(read, Unescape(s[j + 1])))
                ELSE ParseFail :
                read \in {acc \o SubSeq(s, i, j - 1)} }) :
        j \in {ScanString(s, i)} })

ParseString(s, i) == ReadString(s, i + 1, <<>>)

RECURSIVE ScanDigits(_, _)
ScanDigits(s, i) == IF i <= Len(s) /\ IsDigit(s[i]) THEN ScanDigits(s, i + 1) ELSE i

RECURSIVE DigitsToInt(_)
DigitsToInt(ds) ==
  IF ds = <<>> THEN 0
  ELSE 10 * DigitsToInt(SubSeq(ds, 1, Len(ds) - 1)) + DigitVal(ds[Len(ds)])

RECURSIVE Pow10(_)
Pow10(k) == IF k = 0 THEN 1 ELSE 10 * Pow10(k - 1)

\* An integer, or digits "." digits: a float, kept as numerator and
\* denominator.
ParseNumber(s, i) ==
  LET neg == s[i] = "-"
      first == IF neg THEN i + 1 ELSE i
      \* a leading 0 is a whole number: what follows is extra data
      last == IF first <= Len(s) /\ s[first] = "0" THEN first + 1
              ELSE ScanDigits(s, first)
      n == DigitsToInt(SubSeq(s, first, last - 1))
      frac == last + 1 <= Len(s) /\ s[last] = "." /\ IsDigit(s[last + 1])
      fend == ScanDigits(s, last + 1)
      m == n * Pow10(fend - last - 1) + DigitsToInt(SubSeq(s, last + 1, fend - 1))
  IN IF last = first THEN ParseFail
     ELSE IF frac
       THEN ParseOk(JFloat(IF neg THEN 0 - m ELSE m, Pow10(fend - last - 1)), fend)
     ELSE ParseOk(JInt(IF neg THEN 0 - n ELSE n), last)

MatchAt(s, i, word) ==
  /\ i + Len(word) - 1 <= Len(s)
  /\ SubSeq(s, i, i + Len(word) - 1) = word

\* The scanner inside a list or a dict: what was read so far, the index of
\* the next element or member, whether the closing bracket was read.
Scan(kind, acc, i) == [ok |-> TRUE, done |-> FALSE, kind |-> kind, acc |-> acc, i |-> i]
ScanFail == [ok |-> FALSE, done |-> TRUE, kind |-> "arr", acc |-> <<>>, i |-> 0]

\* after an element or member: a comma and the next one, or the closing
\* bracket
AfterItem(s, st, acc, i, close) ==
  The({ IF j > Len(s) THEN ScanFail
        ELSE IF s[j] = "," THEN [st EXCEPT !.acc = acc, !.i = SkipWs(s, j + 1)]
        ELSE IF s[j] = close THEN [st EXCEPT !.acc = acc, !.i = j + 1, !.done = TRUE]
        ELSE ScanFail :
        j \in {SkipWs(s, i)} })

RECURSIVE ParseValue(_, _), ParseElement(_, _), ParseMember(_, _), ParseItems(_, _, _),
          ParseAll(_, _, _)
ParseValue(s, i) ==
  IF i > Len(s) THEN ParseFail
  ELSE IF s[i] = "[" THEN
    The({ IF j <= Len(s) /\ s[j] = "]" THEN ParseOk(JArr(<<>>), j + 1)
          ELSE The({ IF st.ok THEN ParseOk(JArr(st.acc), st.i) ELSE ParseFail :
                     st \in {ParseAll(s, Scan("arr", <<>>, j), 1)} }) :
          j \in {SkipWs(s, i + 1)} })
  ELSE IF s[i] = "{" THEN
    The({ IF j <= Len(s) /\ s[j] = "}" THEN ParseOk(JObj(EmptyDict), j + 1)
          ELSE The({ IF st.ok THEN ParseOk(JObj(st.acc), st.i) ELSE ParseFail :
                     st \in {ParseAll(s, Scan("obj", EmptyDict, j), 1)} }) :
          j \in {SkipWs(s, i + 1)} })
  ELSE IF s[i] = "\"" THEN ParseString(s, i)
  ELSE IF s[i] = "-" \/ IsDigit(s[i]) THEN ParseNumber(s, i)
  ELSE IF MatchAt(s, i, <<"n", "u", "l", "l">>) THEN ParseOk(JNull, i + 4)
  ELSE IF MatchAt(s, i, <<"t", "r", "u", "e">>) THEN ParseOk(JBool(TRUE), i + 4)
  ELSE IF MatchAt(s, i, <<"f", "a", "l", "s", "e">>) THEN ParseOk(JBool(FALSE), i + 5)
  ELSE ParseFail

\* one element of a list
ParseElement(s, st) ==
  The({ IF ~r.ok THEN ScanFail
        ELSE AfterItem(s, st, Append(st.acc, r.v), r.i, "]") :
        r \in {ParseValue(s, st.i)} })

\* one member of a dict: a repeated key keeps the last value
ParseMember(s, st) ==
  IF st.i > Len(s) \/ s[st.i] # "\"" THEN ScanFail
  ELSE
    The({ IF ~k.ok THEN ScanFail
          ELSE The({ IF c > Len(s) THEN ScanFail
                     ELSE IF s[c] # ":" THEN ScanFail
                     ELSE The({ IF ~r.ok THEN ScanFail
                                ELSE AfterItem(s, st, DictSet(st.acc, k.v.s, r.v), r.i, "}") :
                                r \in {ParseValue(s, SkipWs(s, c + 1))} }) :
                     c \in {SkipWs(s, k.i)} }) :
          k \in {ParseString(s, st.i)} })

\* the next n elements or members, as far as there are that many
ParseItems(s, st, n) ==
  IF st.done THEN st
  ELSE IF n = 1 THEN (IF st.kind = "arr" THEN ParseElement(s, st) ELSE ParseMember(s, st))
  ELSE The({ ParseItems(s, half, n - (n \div 2)) : half \in {ParseItems(s, st, n \div 2)} })

\* all of them, up to the closing bracket
ParseAll(s, st, n) ==
  The({ IF next.done THEN next ELSE ParseAll(s, next, 2 * n) :
        next \in {ParseItems(s, st, n)} })

\* json.loads(s): [ok |-> TRUE, v |-> value], or ok = FALSE for JSONDecodeError
json_loads(s) ==
  The({ IF r.ok /\ SkipWs(s, r.i) = Len(s) + 1 THEN [ok |-> TRUE, v |-> r.v]
        ELSE [ok |-> FALSE, v |-> JNull] :
        r \in {ParseValue(s, SkipWs(s, 1))} })
(***************************************************************************)
(* json.dump(report, f, indent=2, ensure_ascii=False): the chunks the      *)
(* encoder yields, each written to the file in turn.  A dict in the model  *)
(* has no order: its keys are written in the order KeyOrder lists them,    *)
(* which is the order the dictionaries of a report are built in.           *)
(***************************************************************************)
KeyOrder ==
  << K.meeting_info, K.transcription, K.summary, K.action_items, K.stats,
     K.error, K.executive_summary, K.key_points, K.decisions, K.title,
     K.description, K.assignee, K.due_date, K.date, K.duration_minutes,
     K.language, K.participants, K.follow_up_topics, K.priority, K.category,
     K.context, K.id, K.status, K.created_at, K.full_text, K.segments,
     K.speaker, K.start_time, K.end_time, K.text, K.confidence,
     K.total_segments, K.total_action_items, K.high_priority_items >>

RECURSIVE SetToSeq(_)
SetToSeq(S) ==
  IF S = {} THEN <<>>
  ELSE The({ <<x>> \o SetToSeq(S \ {x}) : x \in {CHOOSE y \in S : TRUE} })

\* the keys of dict f in the order they are written
OrderedKeys(f) ==
  SelectSeq(KeyOrder, LAMBDA k : k \in DOMAIN f)
    \o SetToSeq(DOMAIN f \ {KeyOrder[i] : i \in DOMAIN KeyOrder})

RECURSIVE FlattenRange(_, _, _)
\* parts[lo] \o ... \o parts[hi], halving the range
FlattenRange(parts, lo, hi) ==
  IF lo > hi THEN <<>>
  ELSE IF lo = hi THEN parts[lo]
  ELSE The({ FlattenRange(parts, lo, mid) \o FlattenRange(parts, mid + 1, hi) :
             mid \in {(lo + hi) \div 2} })
\* "".join(parts), also for a list of lists of chunks
Flatten(parts) == The({ FlattenRange(p, 1, Len(p)) : p \in {parts} })

\* what ESCAPE_DCT of json.encoder writes for a character; everything else,
\* the characters that are not ASCII included, is written as it is
NeedsEscape(c) == c \in {"\"", "\\", "\n", "\t", "\r", "\f"}
EscapeChar(c) ==
  CASE c = "\"" -> <<"\\", "\"">>
    [] c = "\\" -> <<"\\", "\\">>
    [] c = "\n" -> <<"\\", "n">>
    [] c = "\t" -> <<"\\", "t">>
    [] c = "\r" -> <<"\\", "r">>
    [] c = "\f" -> <<"\\", "f">>

RECURSIVE EncodeFrom(_, _, _)
\* s from index i on with its characters escaped, after acc
EncodeFrom(s, i, acc) ==
  IF \E j \in i..Len(s) : NeedsEscape(s[j])
    THEN The({ EncodeFrom(s, j + 1, acc \o SubSeq(s, i, j - 1) \o EscapeChar(s[j])) :
               j \in {CHOOSE j \in i..Len(s) :
                        /\ NeedsEscape(s[j])
                        /\ \A k \in i..(j - 1) : ~NeedsEscape(s[k])} })
    ELSE acc \o SubSeq(s, i, Len(s))
\* py_encode_basestring(s)
EncodeString(s) == <<"\"">> \o EncodeFrom(s, 1, <<>>) \o <<"\"">>

\* int.__repr__(n)
IntRepr(n) == IF n < 0 THEN <<"-">> \o IntToStr(0 - n) ELSE IntToStr(n)
\* float.__repr__ of n/d, for the floats of the model: d divides 100
FloatRepr(n, d) ==
  The({ (IF h < 0 THEN <<"-">> ELSE <<>>)
          \o IntToStr((IF h < 0 THEN 0 - h ELSE h) \div 100) \o <<".">>
          \o (IF h % 10 = 0
                THEN <<Digits[(((IF h < 0 THEN 0 - h ELSE h) % 100) \div 10) + 1]>>
                ELSE ZeroPad(IntToStr((IF h < 0 THEN 0 - h ELSE h) % 100), 2)) :
        h \in {(n * 100) \div d} })

IsScalar(v) == v.t \notin {"arr", "obj"}
\* the text of a value that is no list and no dict
ScalarText(v) ==
  CASE v.t = "str" -> EncodeString(v.s)
    [] v.t = "null" -> <<"n", "u", "l", "l">>
    [] v.t = "bool" -> IF v.b THEN <<"t", "r", "u", "e">>
                       ELSE <<"f", "a", "l", "s", "e">>
    [] v.t = "int" -> IntRepr(v.n)
    [] v.t = "float" -> FloatRepr(v.n, v.d)

\* '\n' + _indent * level, with indent=2
NewlineIndent(level) == <<"\n">> \o [i \in 1..(2 * level) |-> " "]

RECURSIVE Chunks(_, _), ListChunks(_, _), DictChunks(_, _)
\* _iterencode(o, level): the chunks written for value v
Chunks(v, level) ==
  IF IsScalar(v) THEN <<ScalarText(v)>>
  ELSE IF v.t = "arr" THEN ListChunks(v.items, level)
  ELSE DictChunks(v.f, level)

\* _iterencode_list: a scalar goes out in one chunk with what precedes it
ListChunks(items, level) ==
  IF items = <<>> THEN << <<"[", "]">> >>
  ELSE
    Flatten([i \in 1..Len(items) |->
      The({ IF IsScalar(items[i]) THEN <<buf \o ScalarText(items[i])>>
            ELSE <<buf>> \o Chunks(items[i], level + 1) :
            buf \in {(IF i = 1 THEN <<"[">> ELSE <<",">>)
                       \o NewlineIndent(level + 1)} })])
      \o <<NewlineIndent(level), <<"]">> >>

\* _iterencode_dict: key, separator and value are chunks of their own
DictChunks(f, level) ==
  IF DOMAIN f = {} THEN << <<"{", "}">> >>
  ELSE
    The({ << <<"{">>, NewlineIndent(level + 1) >>
            \o Flatten([i \in 1..Len(keys) |->
                 (IF i = 1 THEN <<>> ELSE << <<",">> \o NewlineIndent(level + 1) >>)
                   \o << EncodeString(keys[i]), <<":", " ">> >>
                   \o Chunks(f[keys[i]], level + 1)])
            \o <<NewlineIndent(level), <<"}">> >> :
          keys \in {OrderedKeys(f)} })

\* json.dumps(v, indent=2, ensure_ascii=False)
json_dumps(v) == Flatten(Chunks(v, 0))

\* f.write(chunk) on a file opened with encoding='utf-8' raises
\* UnicodeEncodeError for a chunk that holds a lone surrogate
Encodable(chunk) == \A k \in 1..Len(chunk) : chunk[k] # Ch.surrogate

\* save_report(report): whether the file was written whole (the file name is
\* returned then, None otherwise) and what the file holds after the with
\* block has closed it: the chunks written before the one that failed
save_report(report) ==
  The({ IF \A i \in 1..Len(chunks) : Encodable(chunks[i])
          THEN [ok |-> TRUE, text |-> Flatten(chunks)]
          ELSE [ok |-> FALSE,
                text |-> Flatten(SubSeq(chunks, 1,
                           (CHOOSE i \in 1..Len(chunks) :
                              /\ ~Encodable(chunks[i])
                              /\ \A j \in 1..(i - 1) : Encodable(chunks[j])) - 1))] :
        chunks \in {Chunks(report, 0)} })

RECURSIVE PyEq(_, _)
\* a == b in Python, for values json.loads returns: numbers by value, lists
\* element by element, dicts key by key
PyEq(a, b) ==
  CASE a.t \in {"int", "float"} /\ b.t \in {"int", "float"} ->
         a.n * (IF b.t = "float" THEN b.d ELSE 1)
           = b.n * (IF a.t = "float" THEN a.d ELSE 1)
    [] a.t = "arr" /\ b.t = "arr" ->
         /\ Len(a.items) = Len(b.items)
         /\ \A i \in 1..Len(a.items) : PyEq(a.items[i], b.items[i])
    [] a.t = "obj" /\ b.t = "obj" ->
         /\ DOMAIN a.f = DOMAIN b.f
         /\ \A k \in DOMAIN a.f : PyEq(a.f[k], b.f[k])
    [] OTHER -> a = b

(***************************************************************************)
(* Transcripts the speech model returns:                                   *)
(*   docs   We need to update the docs. John will send the report by       *)
(*          Friday.                                                        *)
(*   hello  Hello everyone.                                                *)
(*   many   todo a.todo b. ... todo l.   (twelve of them)                  *)
(*   long   "must ", 101 times "x", "."                                    *)
(*   same   todo will ship.                                                *)
(*   cafe   Café must reopen.                                              *)
(***************************************************************************)
Transcript ==
  [ docs |->
      <<"W","e"," ","n","e","e","d"," ","t","o"," ","u","p","d","a","t","e",
        " ","t","h","e"," ","d","o","c","s","."," ","J","o","h","n"," ","w",
        "i","l","l"," ","s","e","n","d"," ","t","h","e"," ","r","e","p","o",
        "r","t"," ","b","y"," ","F","r","i","d","a","y",".">>,
    hello |->
      <<"H","e","l","l","o"," ","e","v","e","r","y","o","n","e",".">>,
    many |->
      <<"t","o","d","o"," ","a",".","t","o","d","o"," ","b",".","t","o","d",
        "o"," ","c",".","t","o","d","o"," ","d",".","t","o","d","o"," ","e",
        ".","t","o","d","o"," ","f",".","t","o","d","o"," ","g",".","t","o",
        "d","o"," ","h",".","t","o","d","o"," ","i",".","t","o","d","o"," ",
        "j",".","t","o","d","o"," ","k",".","t","o","d","o"," ","l",".">>,
    same |->
      <<"t","o","d","o"," ","w","i","l","l"," ","s","h","i","p",".">>,
    cafe |->
      <<"C","a","f","é"," ","m","u","s","t"," ","r","e","o","p","e","n",
        ".">>,
    long |-> <<"m","u","s","t"," ">> \o [i \in 1..101 |-> "x"] \o <<".">>,
    empty |-> <<>> ]

(***************************************************************************)
(* For each transcript and each of the four action_patterns, the matches   *)
(* re.finditer(pattern, transcript, re.IGNORECASE) yields, each as         *)
(* <<start of group 0, end of group 0, start of group 1, end of group 1>>, *)
(* the numbers match.span(0) and match.span(1) give (0-based, end          *)
(* exclusive).                                                             *)
(***************************************************************************)
Matches ==
  [ docs |->
      << <<<<3, 27, 11, 26>>, <<33, 64, 38, 63>>>>,
         <<<<27, 64, 27, 32>>>>,
         <<>>,
         <<>> >>,
    hello |->
      << <<>>,
         <<>>,
         <<>>,
         <<>> >>,
    many |->
      << <<<<0, 7, 5, 6>>, <<7, 14, 12, 13>>, <<14, 21, 19, 20>>,
           <<21, 28, 26, 27>>, <<28, 35, 33, 34>>, <<35, 42, 40, 41>>,
           <<42, 49, 47, 48>>, <<49, 56, 54, 55>>, <<56, 63, 61, 62>>,
           <<63, 70, 68, 69>>, <<70, 77, 75, 76>>, <<77, 84, 82, 83>>>>,
         <<>>,
         <<>>,
         <<>> >>,
    long |->
      << <<<<0, 107, 5, 106>>>>,
         <<>>,
         <<>>,
         <<>> >>,
    same |->
      << <<<<0, 15, 5, 14>>>>,
         <<<<0, 15, 0, 4>>>>,
         <<>>,
         <<>> >>,
    cafe |->
      << <<<<5, 17, 10, 16>>>>,
         <<>>,
         <<>>,
         <<>> >> ]

(***************************************************************************)
(* Texts the language model answers.                                       *)
(*   sum_full     {"executive_summary":"ok","key_points":["a"],"decisions":[ *)
(*                ],"participants":["Ann","Bob"],"follow_up_topics":[]}      *)
(*   sum_partial  {"executive_summary":"ok"}                                 *)
(*   sum_array    []                                                         *)
(*   sum_scalar   42                                                         *)
(*   sum_badnames {"executive_summary":"ok","key_points":[],"decisions":[]," *)
(*                participants":[1],"follow_up_topics":[]}                   *)
(*   sum_lone     {"executive_summary":"a\ud800b","key_points":[],"decisions *)
(*                ":[],"participants":[],"follow_up_topics":[]}              *)
(*   text_short   Sorry, no JSON here                                        *)
(*   text_quoted  He said "no" (newline)                                     *)
(*   ext_items    [{"title":"Ship","priority":"High","id":7,"status":"done"} *)
(*                ,{"title":"Doc","priority":"high"},{"title":"Fix","priorit *)
(*                y":"High"}]                                                *)
(*   ext_empty    []                                                         *)
(*   ext_object   {"items":[]}                                               *)
(*   ext_scalar   null                                                       *)
(*   ext_mixed    [{"title":"Ship","priority":"High"},3]                     *)
(***************************************************************************)
Reply ==
  [ sum_full |->
      <<"{","\"","e","x","e","c","u","t","i","v","e","_","s","u","m","m",
        "a","r","y","\"",":","\"","o","k","\"",",","\"","k","e","y","_","p",
        "o","i","n","t","s","\"",":","[","\"","a","\"","]",",","\"","d","e",
        "c","i","s","i","o","n","s","\"",":","[","]",",","\"","p","a","r",
        "t","i","c","i","p","a","n","t","s","\"",":","[","\"","A","n","n",
        "\"",",","\"","B","o","b","\"","]",",","\"","f","o","l","l","o","w",
        "_","u","p","_","t","o","p","i","c","s","\"",":","[","]","}">>,
    sum_partial |->
      <<"{","\"","e","x","e","c","u","t","i","v","e","_","s","u","m","m",
        "a","r","y","\"",":","\"","o","k","\"","}">>,
    sum_array |->
      <<"[","]">>,
    sum_scalar |->
      <<"4","2">>,
    sum_badnames |->
      <<"{","\"","e","x","e","c","u","t","i","v","e","_","s","u","m","m",
        "a","r","y","\"",":","\"","o","k","\"",",","\"","k","e","y","_","p",
        "o","i","n","t","s","\"",":","[","]",",","\"","d","e","c","i","s",
        "i","o","n","s","\"",":","[","]",",","\"","p","a","r","t","i","c",
        "i","p","a","n","t","s","\"",":","[","1","]",",","\"","f","o","l",
        "l","o","w","_","u","p","_","t","o","p","i","c","s","\"",":","[",
        "]","}">>,
    sum_lone |->
      <<"{","\"","e","x","e","c","u","t","i","v","e","_","s","u","m","m",
        "a","r","y","\"",":","\"","a","\\","u","d","8","0","0","b","\"",",",
        "\"","k","e","y","_","p","o","i","n","t","s","\"",":","[","]",",",
        "\"","d","e","c","i","s","i","o","n","s","\"",":","[","]",",","\"",
        "p","a","r","t","i","c","i","p","a","n","t","s","\"",":","[","]",
        ",","\"","f","o","l","l","o","w","_","u","p","_","t","o","p","i",
        "c","s","\"",":","[","]","}">>,
    text_short |->
      <<"S","o","r","r","y",","," ","n","o"," ","J","S","O","N"," ","h","e",
        "r","e">>,
    text_quoted |->
      <<"H","e"," ","s","a","i","d"," ","\"","n","o","\"","\n">>,
    ext_items |->
      <<"[","{","\"","t","i","t","l","e","\"",":","\"","S","h","i","p","\"",
        ",","\"","p","r","i","o","r","i","t","y","\"",":","\"","H","i","g",
        "h","\"",",","\"","i","d","\"",":","7",",","\"","s","t","a","t","u",
        "s","\"",":","\"","d","o","n","e","\"","}",",","{","\"","t","i","t",
        "l","e","\"",":","\"","D","o","c","\"",",","\"","p","r","i","o","r",
        "i","t","y","\"",":","\"","h","i","g","h","\"","}",",","{","\"","t",
        "i","t","l","e","\"",":","\"","F","i","x","\"",",","\"","p","r","i",
        "o","r","i","t","y","\"",":","\"","H","i","g","h","\"","}","]">>,
    ext_empty |->
      <<"[","]">>,
    ext_object |->
      <<"{","\"","i","t","e","m","s","\"",":","[","]","}">>,
    ext_scalar |->
      <<"n","u","l","l">>,
    ext_mixed |->
      <<"[","{","\"","t","i","t","l","e","\"",":","\"","S","h","i","p","\"",
        ",","\"","p","r","i","o","r","i","t","y","\"",":","\"","H","i","g",
        "h","\"","}",",","3","]">> ]

(***************************************************************************)
(* Dates: datetime.now(), timedelta and strftime.  The clock counts days    *)
(* after BaseDate; the time of day is not modelled.                        *)
(***************************************************************************)
BaseDate == [y |-> 2026, m |-> 12, d |-> 23]

IsLeap(y) == (y % 4 = 0 /\ y % 100 # 0) \/ y % 400 = 0
DaysInMonth(y, m) ==
  IF m = 2 THEN (IF IsLeap(y) THEN 29 ELSE 28)
  ELSE IF m \in {4, 6, 9, 11} THEN 30 ELSE 31

RECURSIVE AddDays(_, _)
\* date + timedelta(days=n), n >= 0
AddDays(date, n) ==
  IF n = 0 THEN date
  ELSE IF date.d < DaysInMonth(date.y, date.m)
    THEN AddDays([date EXCEPT !.d = date.d + 1], n - 1)
  ELSE IF date.m < 12
    THEN AddDays([date EXCEPT !.m = date.m + 1, !.d = 1], n - 1)
  ELSE AddDays([y |-> date.y + 1, m |-> 1, d |-> 1], n - 1)

\* date.strftime('%Y-%m-%d')
strftime_ymd(date) ==
  ZeroPad(IntToStr(date.y), 4) \o <<"-">> \o ZeroPad(IntToStr(date.m), 2)
    \o <<"-">> \o ZeroPad(IntToStr(date.d), 2)

\* datetime.now() when the clock shows `day`
DateOf(day) == AddDays(BaseDate, day)

(***************************************************************************)
(* MeetingTranscriber._process_segments                                    *)
(***************************************************************************)
\* Faulty variant: the end time is taken from the segment's start
UtteranceEndFromStart(segment, current_speaker) ==
  JObj(DictOf(<<
    <<K.speaker, JStr(Lit.speaker_prefix \o IntToStr(current_speaker))>>,
    <<K.start_time, segment.f[K.start]>>,
    <<K.end_time, segment.f[K.start]>>,
    <<K.text, JStr(Strip(segment.f[K.text].s))>>,
    <<K.confidence, DictGet(segment, K.avg_logprob, JFloat(0, 1))>> >>))
\* the dictionary appended to `processed` for one segment
Utterance(segment, current_speaker) ==
  JObj(DictOf(<<
    <<K.speaker, JStr(Lit.speaker_prefix \o IntToStr(current_speaker))>>,
    <<K.start_time, segment.f[K.start]>>,
    <<K.end_time, segment.f[K.end]>>,
    <<K.text, JStr(Strip(segment.f[K.text].s))>>,
    <<K.confidence, DictGet(segment, K.avg_logprob, JFloat(0, 1))>> >>))

\* Faulty variant: a gap of exactly the threshold flips too
FlipSpeakerAtThreshold(current_speaker, start, last_end_time) ==
  IF start - last_end_time >= GapThreshold * UnitsPerSecond
    THEN (IF current_speaker = 1 THEN 2 ELSE 1)
    ELSE current_speaker
\* the speaker after looking at a segment that starts at `start`
FlipSpeaker(current_speaker, start, last_end_time) ==
  IF start - last_end_time > GapThreshold * UnitsPerSecond
    THEN (IF current_speaker = 1 THEN 2 ELSE 1)
    ELSE current_speaker

RECURSIVE ProcessLoop(_, _, _, _, _)
\* the for loop, from segment i on
ProcessLoop(segments, i, current_speaker, last_end_time, processed) ==
  IF i > Len(segments) THEN processed
  ELSE
    LET segment == segments[i]
        speaker == FlipSpeaker(current_speaker, segment.f[K.start].n, last_end_time)
    IN ProcessLoop(segments, i + 1, speaker, segment.f[K.end].n,
                   Append(processed, Utterance(segment, speaker)))

process_segments(segments) == ProcessLoop(segments, 1, 1, 0, <<>>)

\* A segment as the speech model returns it; times in 1/UnitsPerSecond s.
RawSegment(start, end, text) ==
  JObj(DictOf(<<
    <<K.start, JFloat(start, UnitsPerSecond)>>,
    <<K.end, JFloat(end, UnitsPerSecond)>>,
    <<K.text, JStr(text)>> >>))
RawSegmentLogprob(start, end, text, logprob) ==
  JObj(DictSet(RawSegment(start, end, text).f, K.avg_logprob, JFloat(logprob, 100)))

\* the transcripts above, and finditer on them
finditer(pattern, transcript) ==
  CASE transcript = Transcript.docs -> Matches.docs[pattern]
    [] transcript = Transcript.hello -> Matches.hello[pattern]
    [] transcript = Transcript.many -> Matches.many[pattern]
    [] transcript = Transcript.long -> Matches.long[pattern]
    [] transcript = Transcript.same -> Matches.same[pattern]
    [] transcript = Transcript.cafe -> Matches.cafe[pattern]
    [] OTHER -> <<>>

\* match.group(g) for g = 0, 1: the text of a span
Group(transcript, match, g) ==
  SubSeq(transcript, match[2 * g + 1] + 1, match[2 * g + 2])

\* 500 or more characters of text that is not JSON
LongText(n) == [i \in 1..n |-> <<"a", "b", "c", "d", "e">>[(i % 5) + 1]]

(***************************************************************************)
(* The language model: one chat.completions.create call either raises,    *)
(* returns a message without content (None), or returns a text.            *)
(***************************************************************************)
LlmRaise == [kind |-> "raise", text |-> <<>>]
LlmNone == [kind |-> "none", text |-> <<>>]
LlmText(s) == [kind |-> "text", text |-> s]

SummaryReplies ==
  {LlmRaise, LlmNone} \cup
  { LlmText(s) : s \in {Reply.sum_full, Reply.sum_partial, Reply.sum_array, Reply.sum_scalar,
                         Reply.sum_badnames, Reply.sum_lone, Reply.text_short,
                         Reply.text_quoted, <<>>,
                         LongText(SummaryLimit), LongText(SummaryLimit + 1)} }

ExtractReplies ==
  {LlmRaise, LlmNone} \cup
  { LlmText(s) : s \in {Reply.ext_items, Reply.ext_empty, Reply.ext_object, Reply.ext_scalar,
                         Reply.ext_mixed, Reply.text_short} }

(***************************************************************************)
(* MeetingTranscriber.summarize_meeting                                    *)
(***************************************************************************)
SummaryRecord(executive_summary) ==
  JObj(DictOf(<<
    <<K.executive_summary, JStr(executive_summary)>>,
    <<K.key_points, JArr(<<>>)>>,
    <<K.decisions, JArr(<<>>)>>,
    <<K.participants, JArr(<<>>)>>,
    <<K.follow_up_topics, JArr(<<>>)>> >>))

\* Faulty variant: the raw answer is kept whole
summarize_meeting_untruncated(transcript, meeting_title, llm) ==
  IF llm.kind = "raise" THEN SummaryRecord(Lit.error_summary)
  ELSE IF llm.kind = "none" THEN SummaryRecord(Lit.error_summary)
  ELSE
    The({ IF parsed.ok THEN parsed.v
          ELSE SummaryRecord(llm.text \o Lit.ellipsis) :
          parsed \in {json_loads(llm.text)} })
\* the value summarize_meeting returns when the model answers `llm`
summarize_meeting(transcript, meeting_title, llm) ==
  IF llm.kind = "raise" THEN SummaryRecord(Lit.error_summary)
  \* json.loads(None) raises TypeError, which the outer handler catches
  ELSE IF llm.kind = "none" THEN SummaryRecord(Lit.error_summary)
  ELSE
    The({ IF parsed.ok THEN parsed.v
          ELSE SummaryRecord(Prefix(llm.text, SummaryLimit) \o Lit.ellipsis) :
          parsed \in {json_loads(llm.text)} })

(***************************************************************************)
(* MeetingTranscriber._extract_action_items_fallback                       *)
(***************************************************************************)
NumPatterns == 4

RECURSIVE AllMatchesFromDeduplicated(_, _)
\* Faulty variant: a span an earlier pattern matched is not taken again
AllMatchesFromDeduplicated(transcript, pattern) ==
  IF pattern > NumPatterns THEN <<>>
  ELSE LET mine == finditer(pattern, transcript)
           rest == AllMatchesFromDeduplicated(transcript, pattern + 1)
       IN mine \o SelectSeq(rest, LAMBDA m :
                    \A i \in 1..Len(mine) :
                      <<m[1], m[2]>> # <<mine[i][1], mine[i][2]>>)
RECURSIVE AllMatchesFrom(_, _)
\* the matches in the order the two nested loops visit them
AllMatchesFrom(transcript, pattern) ==
  IF pattern > NumPatterns THEN <<>>
  ELSE finditer(pattern, transcript) \o AllMatchesFrom(transcript, pattern + 1)
AllMatches(transcript) == AllMatchesFrom(transcript, 1)

\* the dictionary appended for one match, built on day `day`
FallbackItem(transcript, match, day) ==
  JObj(DictOf(<<
    <<K.title, JStr(IF Group(transcript, match, 1) # <<>>
                      THEN Prefix(Group(transcript, match, 1), TitleLimit)
                      ELSE Lit.follow_up_item)>>,
    <<K.description, JStr(Group(transcript, match, 0))>>,
    <<K.assignee, JStr(Lit.unassigned)>>,
    <<K.due_date, JStr(strftime_ymd(AddDays(DateOf(day), DueDays)))>>,
    <<K.priority, JStr(Lit.medium)>>,
    <<K.category, JStr(Lit.follow_up)>>,
    <<K.context, JStr(Lit.extracted)>> >>))

\* The day the r-th datetime.now() of a call shows, when the call starts on
\* `day` and midnight passes after `cut` of its readings of the clock.
DayAt(day, cut, r) == IF r <= cut THEN day ELSE day + 1

\* Faulty variant: a transcript without a match gives one generic item
extract_action_items_fallbackNeverEmpty(transcript, day, cut) ==
  The({ IF matches = <<>>
          THEN <<FallbackItem(transcript, <<0, Len(transcript), 0, 0>>, day)>>
          ELSE Prefix([j \in 1..Len(matches) |->
                         FallbackItem(transcript, matches[j], DayAt(day, cut, j))],
                      MaxItems) :
        matches \in {AllMatches(transcript)} })
\* match j is visited at the j-th reading of the clock
extract_action_items_fallback(transcript, day, cut) ==
  The({ Prefix([j \in 1..Len(matches) |->
                  FallbackItem(transcript, matches[j], DayAt(day, cut, j))],
               MaxItems) :
        matches \in {AllMatches(transcript)} })

(***************************************************************************)
(* MeetingTranscriber.extract_action_items                                 *)
(***************************************************************************)
\* ", ".join(v) succeeds: v iterates over strings only
JoinOk(v) ==
  CASE v.t = "arr" -> \A i \in 1..Len(v.items) : IsStrV(v.items[i])
    [] v.t = "str" -> TRUE
    [] v.t = "obj" -> TRUE
    [] OTHER -> FALSE

\* Faulty variant: an id or a status the model supplied is kept
StampItemKeepsOwn(item, i, day) ==
  JObj(DictSet(DictSet(DictSet(item.f, K.id, DictGet(item, K.id, JInt(i))),
                       K.status, DictGet(item, K.status, JStr(Lit.pending))),
               K.created_at, JStr(strftime_ymd(DateOf(day)) \o Lit.midnight_t)))
\* item["id"] = i + 1; item["status"] = "pending"; item["created_at"] = now
StampItem(item, i, day) ==
  JObj(DictSet(DictSet(DictSet(item.f, K.id, JInt(i)),
                       K.status, JStr(Lit.pending)),
               K.created_at, JStr(strftime_ymd(DateOf(day)) \o Lit.midnight_t)))

\* the for loop over action_items; its clock readings follow the `before`
\* readings made earlier in the call
StampAll(action_items, day, cut, before) ==
  The({ [i \in 1..Len(items) |-> StampItem(items[i], i, DayAt(day, cut, before + i))] :
        items \in {action_items} })

\* Faulty variant: an element that is no dictionary is left out and the
\* dictionaries of the list are stamped and returned
StampOrFailSkipsOthers(action_items, fallback, day, cut, before) ==
  [ret |-> StampAll(SelectSeq(action_items, IsDict), day, cut, before),
   called |-> TRUE, fallback |-> fallback,
   reads |-> before + Len(SelectSeq(action_items, IsDict))]
\* The end of the call once action_items is known: the stamped list, or the
\* empty list when the loop meets an element that is no dictionary (TypeError,
\* caught by the outer handler).  `before` clock readings were made earlier.
StampOrFail(action_items, fallback, day, cut, before) ==
  LET bad == {i \in 1..Len(action_items) : ~IsDict(action_items[i])}
  IN IF bad # {}
       THEN [ret |-> <<>>, called |-> TRUE, fallback |-> fallback,
             reads |-> before + (CHOOSE i \in bad : \A j \in bad : i <= j) - 1]
       ELSE [ret |-> StampAll(action_items, day, cut, before), called |-> TRUE,
             fallback |-> fallback, reads |-> before + Len(action_items)]

\* Faulty variant: the fallback also runs when the answer is JSON but no array
ChooseItemsFallbackOnNonList(parsed, transcript, day, cut) ==
  IF parsed.ok /\ IsList(parsed.v)
    THEN [items |-> parsed.v.items, fallback |-> FALSE, before |-> 0]
    ELSE [items |-> extract_action_items_fallback(transcript, day, cut),
          fallback |-> TRUE, before |-> Len(AllMatches(transcript))]
\* The try block around json.loads: action_items after it, whether the
\* fallback ran, and how many times it read the clock.
ChooseItems(parsed, transcript, day, cut) ==
  IF parsed.ok
    THEN [items |-> IF IsList(parsed.v) THEN parsed.v.items ELSE <<>>,
          fallback |-> FALSE, before |-> 0]
    ELSE [items |-> extract_action_items_fallback(transcript, day, cut),
          fallback |-> TRUE, before |-> Len(AllMatches(transcript))]

\* Faulty variant: the fallback also runs when the call to the model raises
extract_action_itemsFallbackOnRaise(transcript, participants, llm, day, cut) ==
  LET participants_list ==
        IF Truthy(participants) THEN participants
        ELSE JArr(<<JStr(Lit.team_member)>>)
      none == [ret |-> <<>>, called |-> TRUE, fallback |-> FALSE, reads |-> 0]
  IN
  IF ~JoinOk(participants_list) THEN [none EXCEPT !.called = FALSE]
  ELSE IF llm.kind = "raise" THEN
    StampOrFail(extract_action_items_fallback(transcript, day, cut), TRUE, day, cut,
                Len(AllMatches(transcript)))
  ELSE IF llm.kind = "none" THEN none
  ELSE
    The({ StampOrFail(chosen.items, chosen.fallback, day, cut, chosen.before) :
          chosen \in {ChooseItems(json_loads(llm.text), transcript, day, cut)} })
\* What one call does when the model answers `llm`: ret is the list returned,
\* called whether the model was called, fallback whether the fallback ran,
\* reads how many times the clock was read after the model's answer.
extract_action_items(transcript, participants, llm, day, cut) ==
  LET participants_list ==
        IF Truthy(participants) THEN participants
        ELSE JArr(<<JStr(Lit.team_member)>>)
      none == [ret |-> <<>>, called |-> TRUE, fallback |-> FALSE, reads |-> 0]
  IN
  \* TypeError from join, caught by the outer handler before the call
  IF ~JoinOk(participants_list) THEN [none EXCEPT !.called = FALSE]
  ELSE IF llm.kind = "raise" THEN none
  \* json.loads(None) raises TypeError: outer handler
  ELSE IF llm.kind = "none" THEN none
  ELSE
    The({ StampOrFail(chosen.items, chosen.fallback, day, cut, chosen.before) :
          chosen \in {ChooseItems(json_loads(llm.text), transcript, day, cut)} })

\* an upper bound of the clock readings of one call, for choosing `cut`
MaxReads(transcript, llm) ==
  IF llm.kind # "text" THEN 0
  ELSE The({ IF ~parsed.ok THEN Len(AllMatches(transcript))
                                  + Min(Len(AllMatches(transcript)), MaxItems)
             ELSE IF IsList(parsed.v) THEN Len(parsed.v.items) ELSE 0 :
             parsed \in {json_loads(llm.text)} })

(***************************************************************************)
(* MeetingTranscriber.transcribe_audio                                     *)
(***************************************************************************)
WhisperRaise == [kind |-> "raise", result |-> JNull]
WhisperResult(text, segments) ==
  [kind |-> "result",
   result |-> JObj(DictOf(<< <<K.text, JStr(text)>>,
                             <<K.segments, JArr(segments)>>,
                             <<K.language, JStr(Lit.en)>> >>))]
\* a result that also reports a duration, in seconds
WhisperResultTimed(text, segments, duration) ==
  [kind |-> "result",
   result |-> JObj(DictSet(WhisperResult(text, segments).result.f,
                           K.duration, JInt(duration)))]

\* segment["start"], segment["end"], segment["text"] exist
SegmentsOk(segments) ==
  \A i \in 1..Len(segments) :
    {K.start, K.end, K.text} \subseteq DOMAIN segments[i].f

EmptyTranscription(language) ==
  JObj(DictOf(<< <<K.full_text, JStr(<<>>)>>,
                 <<K.segments, JArr(<<>>)>>,
                 <<K.language, JStr(language)>>,
                 <<K.duration, JInt(0)>> >>))

transcribe_audio(language, whisper) ==
  IF whisper.kind = "raise" THEN EmptyTranscription(language)
  \* KeyError inside _process_segments is caught as well
  ELSE IF ~SegmentsOk(whisper.result.f[K.segments].items)
    THEN EmptyTranscription(language)
  ELSE
    JObj(DictOf(<<
      <<K.full_text, whisper.result.f[K.text]>>,
      <<K.segments, JArr(process_segments(whisper.result.f[K.segments].items))>>,
      <<K.language, DictGet(whisper.result, K.language, JStr(language))>>,
      <<K.duration, DictGet(whisper.result, K.duration, JInt(0))>> >>))

(***************************************************************************)
(* MeetingTranscriber.generate_meeting_report                              *)
(***************************************************************************)
\* round(seconds / 60, 1), in tenths of a minute
DurationMinutes(seconds) ==
  LET q == seconds \div 6
      r == seconds % 6
  IN JFloat(IF r < 3 THEN q
            ELSE IF r > 3 THEN q + 1
            ELSE IF q % 2 = 0 THEN q ELSE q + 1, 10)

\* Faulty variant: counts every item that names a priority
HighPriorityCountAnyPriority(items) ==
  Len(SelectSeq(items, LAMBDA item : K.priority \in DOMAIN item.f))
\* len([item for item in action_items if item.get("priority") == "High"])
HighPriorityCount(items) ==
  Len(SelectSeq(items, LAMBDA item : DictGet(item, K.priority, JNull) = JStr(Lit.high)))

\* the dictionary built in step 4, on day `day`
CompileReport(meeting_title, transcription, summary_record, items, day) ==
  JObj(DictOf(<<
    <<K.meeting_info, JObj(DictOf(<<
        <<K.title, JStr(meeting_title)>>,
        <<K.date, JStr(strftime_ymd(DateOf(day)) \o Lit.midnight_space)>>,
        <<K.duration_minutes, DurationMinutes(transcription.f[K.duration].n)>>,
        <<K.language, transcription.f[K.language]>>,
        <<K.participants, DictGet(summary_record, K.participants, JArr(<<>>))>> >>))>>,
    <<K.transcription, JObj(DictOf(<<
        <<K.full_text, transcription.f[K.full_text]>>,
        <<K.segments, transcription.f[K.segments]>> >>))>>,
    <<K.summary, summary_record>>,
    <<K.action_items, JArr(items)>>,
    <<K.stats, JObj(DictOf(<<
        <<K.total_segments, JInt(Len(transcription.f[K.segments].items))>>,
        <<K.total_action_items, JInt(Len(items))>>,
        <<K.high_priority_items, JInt(HighPriorityCount(items))>> >>))>> >>))

ErrorResult == JObj(DictOf(<< <<K.error, JStr(Lit.error_transcribe)>> >>))

\* Faulty variant: only a missing full_text counts as a failure
NoFullTextOnlyNone(transcription) == transcription.f[K.full_text] = JNull
\* if not transcription_result["full_text"]
NoFullText(transcription) == ~Truthy(transcription.f[K.full_text])

(***************************************************************************)
(* Inputs of a run.                                                        *)
(***************************************************************************)
\* the participants argument: None, an empty list, or names
ParticipantArgs == {JNull, JArr(<<>>), JArr(<<JStr(Lit.ann)>>)}

\* starts [0, 1, 5, 6] and ends [1, 2, 5.5, 7] of the specification's example
ExampleSegments ==
  << RawSegmentLogprob(0, 2, Lit.hi_padded, -25),
     RawSegment(2, 4, Lit.hi_padded),
     RawSegment(10, 11, Lit.hi_padded),
     RawSegment(12, 14, Lit.hi_padded) >>

\* a segment without its "text"
BrokenSegment == JObj(DictOf(<< <<K.start, JFloat(0, UnitsPerSecond)>>,
                                <<K.end, JFloat(2, UnitsPerSecond)>> >>))

WhisperReplies ==
  { WhisperRaise,
    WhisperResult(Transcript.docs, ExampleSegments),
    WhisperResultTimed(Transcript.docs, <<>>, 90),
    WhisperResult(Transcript.hello, <<RawSegment(6, 9, Lit.hi_padded)>>),
    WhisperResultTimed(Transcript.many, <<>>, 100),
    WhisperResult(Transcript.long, <<>>),
    WhisperResult(Transcript.same, <<>>),
    WhisperResult(Transcript.cafe, <<RawSegment(0, 3, Transcript.cafe)>>),
    WhisperResult(Transcript.docs, <<BrokenSegment>>),
    WhisperResult(Transcript.empty, <<RawSegment(0, 2, <<>>)>>),
    WhisperResult(Transcript.empty, <<>>) }

(***************************************************************************)
(* State.                                                                  *)
(***************************************************************************)
VARIABLES
  pc,             \* where the run of generate_meeting_report stands
  now,            \* the clock: days after BaseDate
  participants,   \* the participants argument of the run
  whisper,        \* what the speech model answered in this run
  llm_summary,    \* what the language model answered to the summary prompt
  llm_extract,    \* what the language model answered to the extraction prompt
  transcription_result,
  summary,
  extraction,     \* what the call of extract_action_items did
  result,         \* the value generate_meeting_report returned
  outcome,        \* "none", "returned" or "raised"
  calls,          \* the collaborator calls of this run, in order
  extract_clock,  \* the day extract_action_items started on, and after how
                  \* many of its readings of the clock midnight passed
  extract_arg,    \* the participants argument extract_action_items was given
  saved,          \* the file save_report wrote for the report of this run
  prev_failed,    \* whether the run before this one failed to transcribe
  seg_in,         \* SpecSeg: the segments given to _process_segments
  seg_out,        \* SpecSeg: what it returned
  seg_done,       \* SpecSeg: whether it has run
  zoom_pc,        \* SpecZoom: "none" before ZoomServerToServerConnector()
  credentials,    \* SpecZoom: whether account_id, client_id and client_secret
                  \* are all set
  access_token,   \* SpecZoom: self.access_token
  token_expires,  \* SpecZoom: self.token_expires, in seconds, or None
  zoom_now,       \* SpecZoom: datetime.now(), in seconds
  zoom_call,      \* SpecZoom: what the last call of get_access_token did
  par_pc,         \* SpecPar: where each of the parallel runs stands
  par_instance,   \* SpecPar: the MeetingTranscriber each run was called on
  par_in,         \* SpecPar: each run's argument and the answers it was given
  par_locals,     \* SpecPar: the local variables of each run's frame, and
                  \* the fields of each instance other than its two clients
  par_out         \* SpecPar: what each run ended with

runvars == <<pc, participants, whisper, llm_summary, llm_extract,
             transcription_result, summary, extraction, result, outcome, calls,
             extract_clock, extract_arg, saved, prev_failed>>
segvars == <<seg_in, seg_out, seg_done>>
zoomvars == <<zoom_pc, credentials, access_token, token_expires, zoom_now, zoom_call>>
parvars == <<par_pc, par_instance, par_in, par_locals, par_out>>
vars == <<runvars, now, segvars, zoomvars, parvars>>

NoReply == [kind |-> "pending", text |-> <<>>]
NoWhisper == [kind |-> "pending", result |-> JNull]
NoExtraction == [ret |-> <<>>, called |-> FALSE, fallback |-> FALSE, reads |-> 0]
NoClock == [day |-> 0, cut |-> 0]
NoArgument == [passed |-> FALSE, v |-> JNull]
NoFile == [state |-> "none", text |-> <<>>]

meeting_title == Lit.meeting
language == Lit.en

RunInit ==
  /\ pc = "idle"
  /\ participants = JNull
  /\ whisper = NoWhisper
  /\ llm_summary = NoReply
  /\ llm_extract = NoReply
  /\ transcription_result = JNull
  /\ summary = JNull
  /\ extraction = NoExtraction
  /\ result = JNull
  /\ outcome = "none"
  /\ calls = <<>>
  /\ extract_clock = NoClock
  /\ extract_arg = NoArgument
  /\ saved = NoFile
  /\ prev_failed = FALSE

SegInit ==
  /\ seg_in = <<>>
  /\ seg_out = <<>>
  /\ seg_done = FALSE

NoCall ==
  [outcome |-> "none", requests |-> 0, ret |-> JNull, at |-> 0, fetched |-> 0,
   reply |-> [kind |-> "none"], access_token |-> JNull, token_expires |-> JNull]

ZoomInit ==
  /\ zoom_pc = "none"
  /\ credentials = FALSE
  /\ access_token = JNull
  /\ token_expires = JNull
  /\ zoom_now = 0
  /\ zoom_call = NoCall

\* the runs of SpecPar, and the instances they may be called on
Runs == {1, 2}

\* Nothing has run: every frame and every instance is as constructed.
ParInit ==
  /\ par_pc = [r \in Runs |-> "idle"]
  /\ par_instance = [r \in Runs |-> r]
  /\ par_in = [r \in Runs |->
                 [participants |-> JNull, whisper |-> NoWhisper,
                  llm_summary |-> NoReply, llm_extract |-> NoReply]]
  /\ par_locals = [place \in Runs \cup {10 + i : i \in Runs} |->
                     [transcription_result |-> JNull, summary |-> JNull,
                      action_items |-> <<>>]]
  /\ par_out = [r \in Runs |-> [outcome |-> "none", result |-> JNull]]

Init == RunInit /\ now = 0 /\ SegInit /\ ZoomInit /\ ParInit

\* The caller invokes generate_meeting_report.
Start ==
  /\ pc = "idle"
  /\ \E p \in ParticipantArgs : participants' = p
  /\ pc' = "transcribe"
  /\ UNCHANGED <<whisper, llm_summary, llm_extract, transcription_result,
                 summary, extraction, result, outcome, calls, extract_clock,
                 extract_arg, saved, prev_failed, now, segvars, zoomvars, parvars>>

\* Step 1: transcribe_audio, and the test of its full_text.
Transcribe ==
  /\ pc = "transcribe"
  /\ \E w \in WhisperReplies :
       \E t \in {transcribe_audio(language, w)} :
          /\ whisper' = w
          /\ transcription_result' = t
          /\ calls' = Append(calls, "whisper")
          /\ IF NoFullText(t)
               THEN /\ result' = ErrorResult
                    /\ outcome' = "returned"
                    /\ pc' = "done"
               ELSE /\ pc' = "summarize"
                    /\ UNCHANGED <<result, outcome>>
  /\ UNCHANGED <<participants, llm_summary, llm_extract, summary, extraction,
                 extract_clock, extract_arg, saved, prev_failed, now, segvars, zoomvars, parvars>>

\* Step 2: summarize_meeting.
Summarize ==
  /\ pc = "summarize"
  /\ \E llm \in SummaryReplies :
       /\ llm_summary' = llm
       /\ summary' = summarize_meeting(transcription_result.f[K.full_text].s,
                                       meeting_title, llm)
  /\ calls' = Append(calls, "llm_summary")
  /\ pc' = "extract"
  /\ UNCHANGED <<participants, whisper, llm_extract, transcription_result,
                 extraction, result, outcome, extract_clock, extract_arg,
                 saved, prev_failed, now, segvars, zoomvars, parvars>>

\* participants or summary.get("participants", []) needs summary.get
ArgumentRaises == ~Truthy(participants) /\ ~IsDict(summary)
\* Faulty variant: the participants the summary names come first, the
\* caller's are used when it names none
ExtractorArgumentSummaryFirst ==
  IF IsDict(summary) /\ Truthy(DictGet(summary, K.participants, JArr(<<>>)))
    THEN DictGet(summary, K.participants, JArr(<<>>))
    ELSE participants
\* Faulty variant: the summary's participants are used whatever the caller gave
ExtractorArgumentFromSummary == DictGet(summary, K.participants, JArr(<<>>))
ExtractorArgument ==
  IF Truthy(participants) THEN participants
  ELSE DictGet(summary, K.participants, JArr(<<>>))

\* Step 3, when evaluating the argument raises AttributeError.
ExtractArgumentError ==
  /\ pc = "extract"
  /\ ArgumentRaises
  /\ outcome' = "raised"
  /\ pc' = "done"
  /\ UNCHANGED <<participants, whisper, llm_summary, llm_extract,
                 transcription_result, summary, extraction, result, calls,
                 extract_clock, extract_arg, saved, prev_failed, now, segvars, zoomvars, parvars>>

\* Step 3: extract_action_items.  Midnight may pass after `cut` of the
\* call's readings of the clock.
Extract ==
  /\ pc = "extract"
  /\ ~ArgumentRaises
  /\ \E llm \in ExtractReplies :
       \E cut \in 0..MaxReads(transcription_result.f[K.full_text].s, llm) :
         \E e \in {extract_action_items(transcription_result.f[K.full_text].s,
                                        ExtractorArgument, llm, now, cut)} :
            /\ cut < e.reads => now < MaxDay
            /\ extraction' = e
            /\ extract_arg' = [passed |-> TRUE, v |-> ExtractorArgument]
            /\ extract_clock' = [day |-> now, cut |-> cut]
            /\ llm_extract' = IF e.called THEN llm ELSE NoReply
            /\ calls' = IF e.called THEN Append(calls, "llm_extract") ELSE calls
            /\ now' = IF cut < e.reads THEN now + 1 ELSE now
  /\ pc' = "compile"
  /\ UNCHANGED <<participants, whisper, llm_summary, transcription_result,
                 summary, result, outcome, saved, prev_failed, segvars, zoomvars, parvars>>

\* Step 4: the report, or AttributeError from summary.get.
Compile ==
  /\ pc = "compile"
  /\ IF IsDict(summary)
       THEN /\ result' = CompileReport(meeting_title, transcription_result,
                                       summary, extraction.ret, now)
            /\ outcome' = "returned"
       ELSE /\ outcome' = "raised"
            /\ UNCHANGED result
  /\ pc' = "done"
  /\ UNCHANGED <<participants, whisper, llm_summary, llm_extract,
                 transcription_result, summary, extraction, calls, extract_clock,
                 extract_arg, saved, prev_failed, now, segvars, zoomvars, parvars>>

\* The caller has the result; the next run starts from fresh local state.
Finish ==
  /\ pc = "done"
  /\ pc' = "idle"
  /\ participants' = JNull
  /\ whisper' = NoWhisper
  /\ llm_summary' = NoReply
  /\ llm_extract' = NoReply
  /\ transcription_result' = JNull
  /\ summary' = JNull
  /\ extraction' = NoExtraction
  /\ result' = JNull
  /\ outcome' = "none"
  /\ calls' = <<>>
  /\ extract_clock' = NoClock
  /\ extract_arg' = NoArgument
  /\ saved' = NoFile
  /\ prev_failed' = (result = ErrorResult)
  /\ UNCHANGED <<now, segvars, zoomvars, parvars>>

\* main() saves the report of a run that did not fail (lines 320 to 325).
SaveReport ==
  /\ pc = "done"
  /\ outcome = "returned"
  /\ K.error \notin DOMAIN result.f
  /\ saved = NoFile
  /\ \E w \in {save_report(result)} :
       saved' = [state |-> IF w.ok THEN "written" ELSE "failed", text |-> w.text]
  /\ UNCHANGED <<pc, participants, whisper, llm_summary, llm_extract,
                 transcription_result, summary, extraction, result, outcome,
                 calls, extract_clock, extract_arg, prev_failed, now, segvars, zoomvars, parvars>>

\* A day passes.
Tick ==
  /\ now < MaxDay
  /\ now' = now + 1
  /\ UNCHANGED <<runvars, segvars, zoomvars, parvars>>

Next ==
  \/ Start
  \/ Transcribe
  \/ Summarize
  \/ ExtractArgumentError
  \/ Extract
  \/ Compile
  \/ SaveReport
  \/ Finish
  \/ Tick

Spec == Init /\ [][Next]_vars

(***************************************************************************)
(* SpecSeg: _process_segments on every segment list of up to MaxSegs       *)
(* segments whose gaps and lengths are drawn from Gaps and Durations.      *)
(***************************************************************************)
\* start minus the previous end (0 and 0.5 s, exactly 2 s, 2.5 s, 3 s)
Gaps == {0, 1, 4, 5, 6}
\* end minus start; -1 is a segment that ends before it starts
Durations == {-1, 1, 2}

LastEnd(segments) ==
  IF segments = <<>> THEN 0 ELSE segments[Len(segments)].f[K.end].n

SegAppend ==
  /\ ~seg_done
  /\ Len(seg_in) < MaxSegs
  /\ \E gap \in Gaps, dur \in Durations :
       LET start == LastEnd(seg_in) + gap
       IN seg_in' = Append(seg_in, RawSegment(start, start + dur, Lit.hi_padded))
  /\ UNCHANGED <<seg_out, seg_done, runvars, now, zoomvars, parvars>>

SegProcess ==
  /\ ~seg_done
  /\ seg_out' = process_segments(seg_in)
  /\ seg_done' = TRUE
  /\ UNCHANGED <<seg_in, runvars, now, zoomvars, parvars>>

NextSeg == SegAppend \/ SegProcess

SpecSeg == Init /\ [][NextSeg]_vars

(***************************************************************************)
(* SpecZoom: ZoomServerToServerConnector.get_access_token.  Time is in     *)
(* seconds; the token endpoint answers with one of ZoomReplies.            *)
(***************************************************************************)
ZK ==
  [access_token |-> <<"a", "c", "c", "e", "s", "s", "_", "t", "o", "k", "e", "n">>,
   expires_in |-> <<"e", "x", "p", "i", "r", "e", "s", "_", "i", "n">>]

\* the clock does not go beyond MaxNow
MaxNow == 120
\* token_data.get('expires_in', 3600)
DefaultExpiresIn == 3600
\* timedelta(seconds=expires_in - 60)
RefreshMargin == 60
\* how long a token request takes, and how far the clock moves between calls
Delays == {0, 30}

\* a key the answer does not have
Absent == [t |-> "absent"]
TokenBody(token, expires_in) ==
  JObj(DictOf(SelectSeq(<< <<ZK.access_token, token>>, <<ZK.expires_in, expires_in>> >>,
                        LAMBDA pair : pair[2] # Absent)))

ZoomReplies ==
  { [kind |-> "post_raises"], [kind |-> "http_error"], [kind |-> "body_not_json"],
    [kind |-> "json", body |-> JArr(<<>>)] } \cup
  { [kind |-> "json", body |-> TokenBody(token, expires_in)] :
      token \in {Absent, JStr(<<"A">>), JStr(<<"B">>)},
      expires_in \in {Absent, JInt(30), JInt(60), JInt(90),
                      JStr(<<"3", "6", "0", "0">>)} }

\* expires_in - 60 is defined: expires_in is a number
IsNumber(v) == v.t \in {"int", "bool"}
NumberOf(v) == IF v.t = "bool" THEN (IF v.b THEN 1 ELSE 0) ELSE v.n

\* the test of line 36 at time t
CacheValid(token, expires, t) ==
  /\ Truthy(token)
  /\ expires # JNull
  /\ t < expires.n

\* Faulty variant: the token is kept for all of expires_in
TokenExpiryWithoutMargin(fetched, expires_in) == fetched + expires_in
\* datetime.now() + timedelta(seconds=expires_in - 60)
TokenExpiry(fetched, expires_in) == fetched + expires_in - RefreshMargin

\* One call at time t by a connector whose fields are token and expires, the
\* endpoint answering `reply` after `delay` seconds: the fields after the
\* call, how it ended, how many requests it made, what it returned and when
\* the answer was there.
get_access_token(has_credentials, token, expires, t, reply, delay) ==
  LET unchanged(how, requests) ==
        [access_token |-> token, token_expires |-> expires, outcome |-> how,
         requests |-> requests, ret |-> JNull,
         fetched |-> IF requests = 0 THEN t ELSE t + delay]
  IN
  IF CacheValid(token, expires, t) THEN [unchanged("cached", 0) EXCEPT !.ret = token]
  ELSE IF ~has_credentials THEN unchanged("value_error", 0)
  \* requests.post, raise_for_status or response.json() raises
  ELSE IF reply.kind # "json" THEN unchanged("raised", 1)
  \* token_data.get: AttributeError
  ELSE IF ~IsDict(reply.body) THEN unchanged("raised", 1)
  \* expires_in - 60: TypeError, after self.access_token was assigned
  ELSE IF ~IsNumber(DictGet(reply.body, ZK.expires_in, JInt(DefaultExpiresIn)))
    THEN [unchanged("raised", 1) EXCEPT
            !.access_token = DictGet(reply.body, ZK.access_token, JNull)]
  ELSE
    [access_token |-> DictGet(reply.body, ZK.access_token, JNull),
     token_expires |->
       JInt(TokenExpiry(t + delay,
              NumberOf(DictGet(reply.body, ZK.expires_in, JInt(DefaultExpiresIn))))),
     outcome |-> "returned", requests |-> 1,
     ret |-> DictGet(reply.body, ZK.access_token, JNull),
     fetched |-> t + delay]

\* ZoomServerToServerConnector(): the credentials come from the environment
ZoomConstruct ==
  /\ zoom_pc = "none"
  /\ zoom_pc' = "ready"
  /\ credentials' \in BOOLEAN
  /\ access_token' = JNull
  /\ token_expires' = JNull
  /\ UNCHANGED <<zoom_now, zoom_call, runvars, now, segvars, parvars>>

GetAccessToken ==
  /\ zoom_pc = "ready"
  /\ \E reply \in ZoomReplies, delay \in Delays :
       \E r \in {get_access_token(credentials, access_token, token_expires,
                                  zoom_now, reply, delay)} :
         /\ r.fetched <= MaxNow
         \* calls that make no request differ in nothing
         /\ r.requests = 0 => reply.kind = "post_raises" /\ delay = 0
         /\ access_token' = r.access_token
         /\ token_expires' = r.token_expires
         /\ zoom_now' = r.fetched
         /\ zoom_call' =
              [outcome |-> r.outcome, requests |-> r.requests, ret |-> r.ret,
               at |-> zoom_now, fetched |-> r.fetched,
               reply |-> IF r.requests = 0 THEN [kind |-> "none"] ELSE reply,
               access_token |-> access_token, token_expires |-> token_expires]
  /\ UNCHANGED <<zoom_pc, credentials, runvars, now, segvars, parvars>>

\* Time passes between two calls.
ZoomTick ==
  /\ zoom_pc = "ready"
  /\ \E d \in Delays \ {0} :
       /\ zoom_now + d <= MaxNow
       /\ zoom_now' = zoom_now + d
  /\ UNCHANGED <<zoom_pc, credentials, access_token, token_expires, zoom_call,
                 runvars, now, segvars, parvars>>

NextZoom == ZoomConstruct \/ GetAccessToken \/ ZoomTick

SpecZoom == Init /\ [][NextZoom]_vars

(***************************************************************************)
(* SpecPar: two runs of generate_meeting_report in parallel, on one        *)
(* MeetingTranscriber or on two, interleaved at the collaborator calls.    *)
(***************************************************************************)
\* what the caller and the collaborators may give a run
ParReplies ==
  [participants |-> {JNull, JArr(<<JStr(Lit.ann)>>)},
   whisper |-> {WhisperRaise, WhisperResult(Transcript.docs, ExampleSegments),
                WhisperResult(Transcript.same, <<>>)},
   summary |-> {LlmRaise, LlmText(Reply.sum_full), LlmText(Reply.sum_array)},
   extract |-> {LlmText(Reply.ext_items), LlmText(Reply.text_short)}]

\* generate_meeting_report run alone on the argument and the answers of `in`,
\* the clock standing still: how it ends and what it returns
generate_meeting_report(in) ==
  LET t == transcribe_audio(language, in.whisper)
      text == t.f[K.full_text].s
      s == summarize_meeting(text, meeting_title, in.llm_summary)
      e == extract_action_items(text,
             IF Truthy(in.participants) THEN in.participants
             ELSE DictGet(s, K.participants, JArr(<<>>)),
             in.llm_extract, now, MaxReads(text, in.llm_extract))
  IN IF NoFullText(t) THEN [outcome |-> "returned", result |-> ErrorResult]
     ELSE IF ~IsDict(s) THEN [outcome |-> "raised", result |-> JNull]
     ELSE [outcome |-> "returned",
           result |-> CompileReport(meeting_title, t, s, e.ret, now)]

\* Faulty variant: transcription_result, summary and action_items are kept in
\* fields of the instance
LocalsOnSelf(r) == 10 + par_instance[r]
\* where transcription_result, summary and action_items of run r live: in the
\* frame of the call
LocalsOf(r) == r

ParStart ==
  \E r \in Runs, i \in Runs, p \in ParReplies.participants :
    /\ par_pc[r] = "idle"
    /\ par_pc' = [par_pc EXCEPT ![r] = "transcribe"]
    /\ par_instance' = [par_instance EXCEPT ![r] = i]
    /\ par_in' = [par_in EXCEPT ![r].participants = p]
    /\ UNCHANGED <<par_locals, par_out, runvars, now, segvars, zoomvars>>

ParTranscribe ==
  \E r \in Runs, w \in ParReplies.whisper :
    \E t \in {transcribe_audio(language, w)} :
      /\ par_pc[r] = "transcribe"
      /\ par_in' = [par_in EXCEPT ![r].whisper = w]
      /\ par_locals' = [par_locals EXCEPT ![LocalsOf(r)].transcription_result = t]
      /\ IF NoFullText(t)
           THEN /\ par_out' = [par_out EXCEPT
                                 ![r] = [outcome |-> "returned", result |-> ErrorResult]]
                /\ par_pc' = [par_pc EXCEPT ![r] = "done"]
           ELSE /\ par_pc' = [par_pc EXCEPT ![r] = "summarize"]
                /\ UNCHANGED par_out
      /\ UNCHANGED <<par_instance, runvars, now, segvars, zoomvars>>

ParSummarize ==
  \E r \in Runs, llm \in ParReplies.summary :
    /\ par_pc[r] = "summarize"
    /\ par_in' = [par_in EXCEPT ![r].llm_summary = llm]
    /\ par_locals' =
         [par_locals EXCEPT ![LocalsOf(r)].summary =
            summarize_meeting(
              par_locals[LocalsOf(r)].transcription_result.f[K.full_text].s,
              meeting_title, llm)]
    /\ par_pc' = [par_pc EXCEPT ![r] = "extract"]
    /\ UNCHANGED <<par_instance, par_out, runvars, now, segvars, zoomvars>>

\* step 3, or AttributeError from summary.get when the argument is evaluated
ParExtract ==
  \E r \in Runs, llm \in ParReplies.extract :
    /\ par_pc[r] = "extract"
    /\ \E text \in {par_locals[LocalsOf(r)].transcription_result.f[K.full_text].s},
          s \in {par_locals[LocalsOf(r)].summary} :
      /\ IF ~Truthy(par_in[r].participants) /\ ~IsDict(s)
           THEN /\ par_out' = [par_out EXCEPT
                                 ![r] = [outcome |-> "raised", result |-> JNull]]
                /\ par_pc' = [par_pc EXCEPT ![r] = "done"]
                /\ UNCHANGED <<par_in, par_locals>>
           ELSE \E e \in {extract_action_items(text,
                            IF Truthy(par_in[r].participants)
                              THEN par_in[r].participants
                              ELSE DictGet(s, K.participants, JArr(<<>>)),
                            llm, now, MaxReads(text, llm))} :
                  /\ par_in' = [par_in EXCEPT
                                  ![r].llm_extract = IF e.called THEN llm ELSE NoReply]
                  /\ par_locals' = [par_locals EXCEPT
                                      ![LocalsOf(r)].action_items = e.ret]
                  /\ par_pc' = [par_pc EXCEPT ![r] = "compile"]
                  /\ UNCHANGED par_out
      /\ UNCHANGED <<par_instance, runvars, now, segvars, zoomvars>>

\* step 4, or AttributeError from summary.get
ParCompile ==
  \E r \in Runs :
    \E mine \in {par_locals[LocalsOf(r)]} :
      /\ par_pc[r] = "compile"
      /\ par_out' =
           [par_out EXCEPT ![r] =
              IF IsDict(mine.summary)
                THEN [outcome |-> "returned",
                      result |-> CompileReport(meeting_title, mine.transcription_result,
                                               mine.summary, mine.action_items, now)]
                ELSE [outcome |-> "raised", result |-> JNull]]
      /\ par_pc' = [par_pc EXCEPT ![r] = "done"]
      /\ UNCHANGED <<par_instance, par_in, par_locals, runvars, now, segvars, zoomvars>>

NextPar == ParStart \/ ParTranscribe \/ ParSummarize \/ ParExtract \/ ParCompile

SpecPar == Init /\ [][NextPar]_vars

(***************************************************************************)
(* Properties.                                                             *)
(***************************************************************************)
AfterTranscribe == pc \in {"summarize", "extract", "compile", "done"}
AfterSummarize == pc \in {"extract", "compile", "done"} /\ llm_summary.kind # "pending"
AfterExtract == pc \in {"compile", "done"}
\* the run returned a report (not the error result)
ReturnedReport ==
  pc = "done" /\ outcome = "returned" /\ K.stats \in DOMAIN result.f
ReportItems == result.f[K.action_items].items
ReportStats == result.f[K.stats].f
FullText == transcription_result.f[K.full_text].s

\* C1: in every report generate_meeting_report returns, stats.total_segments
\* is the length of transcription.segments, stats.total_action_items the
\* length of action_items, and stats.high_priority_items the number of
\* action items whose priority is "High".
C1_StatsMatchReport ==
  ReturnedReport =>
    /\ ReportStats[K.total_segments]
         = JInt(Len(result.f[K.transcription].f[K.segments].items))
    /\ ReportStats[K.total_action_items] = JInt(Len(ReportItems))
    /\ ReportStats[K.high_priority_items]
         = JInt(Cardinality({i \in 1..Len(ReportItems) :
                  /\ K.priority \in DOMAIN ReportItems[i].f
                  /\ ReportItems[i].f[K.priority] = JStr(Lit.high)}))

\* A report with four segments and three action items, two of them High and
\* one with another priority.
C1_Witness ==
  /\ ReturnedReport
  /\ ReportStats[K.total_segments] = JInt(4)
  /\ ReportStats[K.total_action_items] = JInt(3)
  /\ ReportStats[K.high_priority_items] = JInt(2)

\* C2: in every list extract_action_items returns, item i has id i (so the
\* ids are 1..N in order) and status "pending", whatever id or status the
\* model's objects carried.
C2_IdsSequentialPending ==
  AfterExtract =>
    \A i \in 1..Len(extraction.ret) :
      /\ IsDict(extraction.ret[i])
      /\ {K.id, K.status} \subseteq DOMAIN extraction.ret[i].f
      /\ extraction.ret[i].f[K.id] = JInt(i)
      /\ extraction.ret[i].f[K.status] = JStr(Lit.pending)

\* The model answered objects that carried "id": 7 and "status": "done", and
\* three items were returned.
C2_Witness ==
  /\ AfterExtract
  /\ llm_extract = LlmText(Reply.ext_items)
  /\ Len(extraction.ret) = 3

\* the answer to the extraction prompt is JSON, but no array
ExtractAnswerNotArray ==
  /\ AfterExtract
  /\ llm_extract.kind = "text"
  /\ json_loads(llm_extract.text).ok
  /\ ~IsList(json_loads(llm_extract.text).v)
\* the answer to the extraction prompt is no JSON
ExtractAnswerNotJson ==
  /\ AfterExtract
  /\ llm_extract.kind = "text"
  /\ ~json_loads(llm_extract.text).ok

\* item j of the returned list is a fallback item made at the j-th reading
\* of the clock: Medium, "Follow-up", "Unassigned", due seven days later
IsFallbackItem(item, j) ==
  /\ {K.priority, K.category, K.assignee, K.due_date} \subseteq DOMAIN item.f
  /\ item.f[K.priority] = JStr(Lit.medium)
  /\ item.f[K.category] = JStr(Lit.follow_up)
  /\ item.f[K.assignee] = JStr(Lit.unassigned)
  /\ item.f[K.due_date]
       = JStr(strftime_ymd(AddDays(
           DateOf(DayAt(extract_clock.day, extract_clock.cut, j)), 7)))

ReturnsFallbackItems ==
  /\ extraction.fallback
  /\ Len(extraction.ret) = Min(10, Len(AllMatches(FullText)))
  /\ \A j \in 1..Len(extraction.ret) : IsFallbackItem(extraction.ret[j], j)

TranscriptionEmpty ==
  /\ pc \notin {"idle", "transcribe"}
  /\ transcription_result.f[K.full_text] = JStr(<<>>)

\* C4: when the speech model raises, or the transcription has an empty
\* full_text, the run ends with exactly {"error": "Failed to transcribe
\* audio"} and has called nothing but the speech model: no summary, no
\* extraction, no language-model call; every such run ends the same.
C4_TranscriptionFailureStops ==
  /\ (pc \notin {"idle", "transcribe"} /\ whisper.kind = "raise")
       => TranscriptionEmpty
  /\ TranscriptionEmpty =>
       /\ pc = "done"
       /\ outcome = "returned"
       /\ DOMAIN result.f = {K.error}
       /\ result.f[K.error] = JStr(Lit.error_transcribe)
       /\ calls = <<"whisper">>
       /\ llm_summary = NoReply /\ llm_extract = NoReply
       /\ summary = JNull /\ extraction = NoExtraction

\* A second failing run in a row: the speech model returned no text after a
\* run that failed as well.
C4_Witness ==
  /\ TranscriptionEmpty
  /\ whisper.kind = "result"
  /\ prev_failed

\* C5 as stated: generate_meeting_report never raises; every finished run
\* returned a report or the transcription-failure result.
C5_NeverRaises ==
  pc = "done" =>
    /\ outcome = "returned"
    /\ (ReturnedReport \/ result = ErrorResult)

SummaryFields ==
  {K.executive_summary, K.key_points, K.decisions, K.participants,
   K.follow_up_topics}

\* C6 as stated: whatever the model answers, summarize_meeting returns a
\* record that has all five fields.
C6_SummaryHasFiveFields ==
  AfterSummarize => IsDict(summary) /\ SummaryFields \subseteq DOMAIN summary.f

ListFieldsEmpty ==
  \A k \in SummaryFields \ {K.executive_summary} : summary.f[k] = JArr(<<>>)

\* C7: when the model's answer is not valid JSON, the summary is the first
\* 500 characters of the answer followed by "...", with the four lists empty;
\* when the call fails it is "Error generating summary", with the four lists
\* empty.
C7_DegradedSummaries ==
  /\ (AfterSummarize /\ llm_summary.kind = "text" /\ ~json_loads(llm_summary.text).ok) =>
       /\ IsDict(summary) /\ DOMAIN summary.f = SummaryFields
       /\ ListFieldsEmpty
       /\ LET es == summary.f[K.executive_summary].s
              n == IF Len(llm_summary.text) < 500 THEN Len(llm_summary.text) ELSE 500
          IN /\ Len(es) = n + 3
             /\ \A i \in 1..n : es[i] = llm_summary.text[i]
             /\ \A i \in (n + 1)..(n + 3) : es[i] = "."
  /\ (AfterSummarize /\ llm_summary.kind = "raise") =>
       /\ IsDict(summary) /\ DOMAIN summary.f = SummaryFields
       /\ ListFieldsEmpty
       /\ summary.f[K.executive_summary] = JStr(Lit.error_summary)

\* The model answered 501 characters that are no JSON.
C7_Witness ==
  /\ AfterSummarize
  /\ llm_summary.kind = "text"
  /\ ~json_loads(llm_summary.text).ok
  /\ Len(llm_summary.text) = 501

\* C8 as stated: when the extractor's call of the model raises, the extractor
\* returns the empty list without running the fallback, and the run still
\* returns a report, with total_action_items = 0.
C8_ExtractFailureStillReports ==
  /\ (AfterExtract /\ llm_extract.kind = "raise") =>
       extraction.ret = <<>> /\ ~extraction.fallback
  /\ (pc = "done" /\ llm_extract.kind = "raise") =>
       /\ ReturnedReport
       /\ ReportStats[K.total_action_items] = JInt(0)

(***************************************************************************)
(* Properties of _process_segments, under SpecSeg.                         *)
(***************************************************************************)
Speaker1 == <<"S", "p", "e", "a", "k", "e", "r", " ", "1">>
Speaker2 == <<"S", "p", "e", "a", "k", "e", "r", " ", "2">>
Label(i) == seg_out[i].f[K.speaker].s
\* the label in force before segment i, and the end before it
LabelBefore(i) == IF i = 1 THEN Speaker1 ELSE Label(i - 1)
EndBefore(i) == IF i = 1 THEN 0 ELSE seg_in[i - 1].f[K.end].n
StartOf(i) == seg_in[i].f[K.start].n
\* the times of the segments, in half seconds
Starts == [i \in 1..Len(seg_in) |-> seg_in[i].f[K.start].n]
Ends == [i \in 1..Len(seg_in) |-> seg_in[i].f[K.end].n]

\* C9: the label of segment i differs from the label in force before it
\* exactly when its start is more than 2.0 s after the previous end (0 for
\* the first segment); starts [0, 1, 5, 6] with ends [1, 2, 5.5, 7] give
\* Speaker 1, Speaker 1, Speaker 2, Speaker 2; a first segment that starts
\* later than 2 s is Speaker 2.
C9_GapRule ==
  seg_done =>
    /\ \A i \in 1..Len(seg_out) :
         (Label(i) # LabelBefore(i)) <=> (StartOf(i) - EndBefore(i) > 4)
    /\ (Starts = <<0, 2, 10, 12>> /\ Ends = <<2, 4, 11, 14>>) =>
         [i \in 1..4 |-> Label(i)] = <<Speaker1, Speaker1, Speaker2, Speaker2>>
    /\ (seg_in # <<>> /\ StartOf(1) > 4) => Label(1) = Speaker2

\* The example of the specification has been processed.
C9_Witness ==
  /\ seg_done
  /\ Starts = <<0, 2, 10, 12>>
  /\ Ends = <<2, 4, 11, 14>>

\* C10: the output has the length and the order of the input: utterance i
\* carries the start and the end of segment i, so it ends no earlier than it
\* starts whenever every segment does, and its label is "Speaker 1" or
\* "Speaker 2".
C10_SameLengthAndTimes ==
  seg_done =>
    /\ Len(seg_out) = Len(seg_in)
    /\ \A i \in 1..Len(seg_in) :
         /\ seg_out[i].f[K.start_time] = seg_in[i].f[K.start]
         /\ seg_out[i].f[K.end_time] = seg_in[i].f[K.end]
         /\ Label(i) \in {Speaker1, Speaker2}
    /\ (\A i \in 1..Len(seg_in) : Ends[i] >= Starts[i]) =>
         \A i \in 1..Len(seg_out) :
           seg_out[i].f[K.end_time].n >= seg_out[i].f[K.start_time].n

\* Three segments that each end after they start have been processed.
C10_Witness ==
  /\ seg_done
  /\ Len(seg_in) = 3
  /\ \A i \in 1..3 : Ends[i] > Starts[i]

(***************************************************************************)
(* The order of the stages of one run.                                     *)
(***************************************************************************)
\* the collaborator calls of a run so far: each at most once, in this order
StageOrder == <<"whisper", "llm_summary", "llm_extract">>

\* C11 as stated: the speech-model call, the summarizer's call and the
\* extractor's call happen in this order and at most once each; once the
\* summary is there the run goes on to the extraction, whatever the summary
\* is; a run ends only after the report is compiled or, before the summary,
\* because the transcription has no text.
C11_StrictPipeline ==
  /\ [](\E n \in 0..3 : calls = SubSeq(StageOrder, 1, n))
  /\ [][pc = "extract" => pc' \in {"extract", "compile"}]_vars
  /\ [][(pc # "done" /\ pc' = "done") =>
          \/ pc = "compile"
          \/ pc = "transcribe" /\ NoFullText(transcription_result')]_vars

(***************************************************************************)
(* The participants the extractor is given.                                *)
(***************************************************************************)
\* the summarization of this run degraded: the answer was no JSON, or the
\* call failed
SummaryDegraded ==
  \/ llm_summary.kind \in {"raise", "none"}
  \/ llm_summary.kind = "text" /\ ~json_loads(llm_summary.text).ok

\* C12: whenever generate_meeting_report runs the extractor, the extractor is
\* given the caller's participant list if that list is non-empty, and
\* otherwise the participants of the summary returned in the same run (the
\* empty list when the summary names none); after a degraded summarization
\* and without a caller's list it is given the empty list.
C12_ExtractorParticipants ==
  extract_arg.passed =>
    /\ Truthy(participants) => extract_arg.v = participants
    /\ ~Truthy(participants) =>
         /\ IsDict(summary)
         /\ K.participants \in DOMAIN summary.f
              => extract_arg.v = summary.f[K.participants]
         /\ K.participants \notin DOMAIN summary.f => extract_arg.v = JArr(<<>>)
         /\ SummaryDegraded => extract_arg.v = JArr(<<>>)

\* The caller named a participant and the summary names two others; the
\* extractor was given the caller's list.
C12_Witness ==
  /\ extract_arg.passed
  /\ participants = JArr(<<JStr(Lit.ann)>>)
  /\ IsDict(summary)
  /\ K.participants \in DOMAIN summary.f
  /\ Len(summary.f[K.participants].items) = 2

(***************************************************************************)
(* The result of the fallback extractor.                                   *)
(***************************************************************************)
\* the matches of patterns 1 to 4 on the transcript of this run, one after
\* the other
Candidates ==
  finditer(1, FullText) \o finditer(2, FullText) \o finditer(3, FullText)
    \o finditer(4, FullText)

\* C13: when the fallback has run, the list returned has min(10, M) items for
\* the M matches of the four patterns, and item j is made from the j-th match
\* in pattern order and match order (its description is the text the match
\* spans); nothing is dropped or merged, so two patterns that match the same
\* span give two items.
C13_FallbackConcatenates ==
  (AfterExtract /\ extraction.fallback) =>
    /\ Len(extraction.ret) = (IF Len(Candidates) < 10 THEN Len(Candidates) ELSE 10)
    /\ \A j \in 1..Len(extraction.ret) :
         /\ K.description \in DOMAIN extraction.ret[j].f
         /\ extraction.ret[j].f[K.description]
              = JStr(SubSeq(FullText, Candidates[j][1] + 1, Candidates[j][2]))

\* The fallback ran on "todo will ship.", which patterns 1 and 2 both match
\* from its first to its last character: two items with one description.
C13_Witness ==
  /\ AfterExtract
  /\ extraction.fallback
  /\ FullText = Transcript.same
  /\ Len(extraction.ret) = 2
  /\ extraction.ret[1].f[K.description] = extraction.ret[2].f[K.description]
  /\ extraction.ret[1].f[K.title] # extraction.ret[2].f[K.title]

(***************************************************************************)
(* The saved report.                                                       *)
(***************************************************************************)
NonAscii == {Ch.eacute, Ch.surrogate}

\* C14 as stated: whenever save_report has been given the report of a run,
\* the file holds a JSON document that parses back to a value equal to the
\* report, field for field, and every character of the transcript that is
\* not ASCII stands in the file as it is, nothing being written as a \u
\* escape.
C14_RoundTrip ==
  saved.state # "none" =>
    /\ saved.state = "written"
    /\ json_loads(saved.text).ok
    /\ PyEq(json_loads(saved.text).v, result)
    /\ \A i \in 1..Len(FullText) :
         FullText[i] \in NonAscii =>
           \E k \in 1..Len(saved.text) : saved.text[k] = FullText[i]
    /\ ~\E k \in 1..(Len(saved.text) - 1) :
          saved.text[k] = "\\" /\ saved.text[k + 1] = "u"


\* C15: the fallback pattern extractor runs in a run only after the model has
\* answered the extraction prompt with a text that does not parse as a JSON
\* array: never when the answer parsed as an array, never when the call to
\* the model raised or gave no text; and the run has then called the speech
\* model, the summarizer's model and the extractor's model once each and
\* nothing else.
C15_FallbackOnlyAfterUnparsed ==
  (AfterExtract /\ extraction.fallback) =>
    /\ extraction.called
    /\ llm_extract.kind = "text"
    /\ ~(json_loads(llm_extract.text).ok /\ IsList(json_loads(llm_extract.text).v))
    /\ calls = StageOrder

\* The model answered the extraction prompt with prose and the fallback made
\* its items for the docs transcript.
C15_Witness ==
  /\ AfterExtract
  /\ extraction.fallback
  /\ llm_extract = LlmText(Reply.text_short)
  /\ FullText = Transcript.docs
  /\ Len(extraction.ret) = Len(Candidates)
  /\ extraction.ret # <<>>


\* C16 as stated: whenever the fallback pattern extractor runs it produces a
\* list that is not empty, whatever the transcript, also when none of the four
\* patterns matches.
C16_FallbackNeverEmpty ==
  (AfterExtract /\ extraction.fallback) => extraction.ret # <<>>

\* C16 amended: whenever the fallback pattern extractor runs it produces one
\* item for each match of the four patterns, up to 10: its list is not empty
\* exactly when at least one pattern matches in the transcript, and is empty
\* when none does.
C16_FallbackEmptyWithoutMatch ==
  (AfterExtract /\ extraction.fallback) =>
    /\ extraction.ret # <<>> <=> \E p \in 1..NumPatterns : finditer(p, FullText) # <<>>
    /\ Len(extraction.ret) = Min(MaxItems, Len(Candidates))

\* The fallback ran on "Hello everyone.", where no pattern matches, and gave
\* the empty list.
C16_Witness ==
  /\ AfterExtract
  /\ extraction.fallback
  /\ FullText = Transcript.hello
  /\ \A p \in 1..NumPatterns : finditer(p, FullText) = <<>>
  /\ extraction.ret = <<>>


\* the answer to the extraction prompt is a JSON array with an element that
\* is no JSON object
ExtractAnswerMixedArray ==
  /\ AfterExtract
  /\ llm_extract.kind = "text"
  /\ json_loads(llm_extract.text).ok
  /\ IsList(json_loads(llm_extract.text).v)
  /\ \E i \in 1..Len(json_loads(llm_extract.text).v.items) :
       ~IsDict(json_loads(llm_extract.text).v.items[i])

\* C19: when the model's answer to the extraction prompt decodes to an array
\* in which some element is no object, extract_action_items returns the empty
\* list, the well-formed objects of the array being dropped too, without
\* running the fallback; it returns to its caller, which goes on to compile
\* the report, and the report of the run has no action item.
C19_NonObjectElementGivesEmpty ==
  ExtractAnswerMixedArray =>
    /\ extraction.ret = <<>>
    /\ ~extraction.fallback
    /\ pc = "done" /\ IsDict(summary) =>
         /\ outcome = "returned"
         /\ ReportItems = <<>>
         /\ ReportStats[K.total_action_items] = JInt(0)

\* The model answered [{"title":"Ship","priority":"High"},3] and the run
\* returned a report without action items.
C19_Witness ==
  /\ ExtractAnswerMixedArray
  /\ llm_extract = LlmText(Reply.ext_mixed)
  /\ IsDict(json_loads(llm_extract.text).v.items[1])
  /\ ReturnedReport
  /\ ReportItems = <<>>


\* The pipeline with steps 2 and 3 exchanged: the extractor runs first, on the
\* transcript and the caller's participants, then the summarizer, then step 4
\* on day `day`; each model answers its prompt as it did in the run, and the
\* extractor reads the clock as it did.
ReorderedRun(day) ==
  The({ IF IsDict(s)
          THEN [outcome |-> "returned",
                result |-> CompileReport(meeting_title, transcription_result, s,
                                         e.ret, day)]
          ELSE [outcome |-> "raised", result |-> result] :
        e \in {extract_action_items(FullText, participants, llm_extract,
                                    extract_clock.day, extract_clock.cut)},
        s \in {summarize_meeting(FullText, meeting_title, llm_summary)} })

\* C18: when the caller gives a participant list that is not empty, the
\* extractor is given that list, so its prompt does not depend on the
\* summarizer, and what generate_meeting_report ends with (the report with
\* its summary, action items and stats, or the exception of step 4) is what
\* the pipeline with the extractor run before the summarizer ends with, each
\* model giving the same answer to the same prompt.
C18_ReorderSameReport ==
  [][(pc = "compile" /\ pc' = "done" /\ Truthy(participants)) =>
       /\ extract_arg.v = participants
       /\ outcome' = ReorderedRun(now).outcome
       /\ result' = ReorderedRun(now).result]_vars

\* A run with the caller's participants in which the summary names two
\* participants of its own and the extractor's model gave items.
C18_Witness ==
  /\ ReturnedReport
  /\ Truthy(participants)
  /\ llm_extract = LlmText(Reply.ext_items)
  /\ K.participants \in DOMAIN summary.f
  /\ IsList(summary.f[K.participants])
  /\ Len(summary.f[K.participants].items) = 2
  /\ result.f[K.summary] = summary
  /\ ReportItems # <<>>


\* the last call of get_access_token found a token cached and not expired
WasCached ==
  CacheValid(zoom_call.access_token, zoom_call.token_expires, zoom_call.at)
\* the fields of the connector are what they were before the last call
FieldsUnchanged ==
  /\ access_token = zoom_call.access_token
  /\ token_expires = zoom_call.token_expires
\* the last call got a successful response: a token answer
TokenAnswer == zoom_call.reply.kind = "json" /\ IsDict(zoom_call.reply.body)
AnswerToken == DictGet(zoom_call.reply.body, ZK.access_token, JNull)
AnswerExpiresIn == DictGet(zoom_call.reply.body, ZK.expires_in, JInt(DefaultExpiresIn))

\* C20 as stated: a call of get_access_token returns the cached token without
\* a request exactly when a token is cached and the time is before
\* token_expires; otherwise it makes exactly one token request; on a
\* successful response, and only then, it overwrites access_token and sets
\* token_expires to the fetch time plus expires_in minus 60 seconds; on a
\* failed request it raises and leaves both fields as they were.
C20_TokenCache ==
  zoom_call.outcome # "none" =>
    /\ zoom_call.outcome = "cached" <=> WasCached
    /\ WasCached =>
         zoom_call.requests = 0 /\ zoom_call.ret = zoom_call.access_token /\ FieldsUnchanged
    /\ ~WasCached => zoom_call.requests = 1
    /\ (~WasCached /\ TokenAnswer) =>
         /\ zoom_call.outcome = "returned"
         /\ access_token = AnswerToken
         /\ token_expires.n = zoom_call.fetched + AnswerExpiresIn.n - RefreshMargin
    /\ (~WasCached /\ ~TokenAnswer) =>
         zoom_call.outcome = "raised" /\ FieldsUnchanged

\* C20 amended: a call returns the cached token without a request exactly
\* when a token is cached and the time is before token_expires.  Otherwise,
\* with a credential missing it raises ValueError without a request and
\* leaves both fields as they were; with the credentials set it makes exactly
\* one token request.  When the request fails or its answer is no JSON object
\* the call raises and leaves both fields as they were.  When the answer is a
\* JSON object whose expires_in is a number or is missing (3600 then), the
\* call overwrites access_token with the answer's token, sets token_expires to
\* the fetch time plus expires_in minus 60 seconds and returns the token, so
\* that a token with expires_in <= 60 is never served from the cache.  When
\* expires_in is no number the call overwrites access_token, leaves
\* token_expires as it was and raises.
C20_TokenCacheWithCredentials ==
  zoom_call.outcome # "none" =>
    /\ zoom_call.outcome = "cached" <=> WasCached
    /\ WasCached =>
         zoom_call.requests = 0 /\ zoom_call.ret = zoom_call.access_token /\ FieldsUnchanged
    /\ (~WasCached /\ ~credentials) =>
         zoom_call.outcome = "value_error" /\ zoom_call.requests = 0 /\ FieldsUnchanged
    /\ (~WasCached /\ credentials) => zoom_call.requests = 1
    /\ (zoom_call.requests = 1 /\ ~TokenAnswer) =>
         zoom_call.outcome = "raised" /\ FieldsUnchanged
    /\ (zoom_call.requests = 1 /\ TokenAnswer /\ IsNumber(AnswerExpiresIn)) =>
         /\ zoom_call.outcome = "returned"
         /\ zoom_call.ret = AnswerToken
         /\ access_token = AnswerToken
         /\ token_expires =
              JInt(zoom_call.fetched + NumberOf(AnswerExpiresIn) - RefreshMargin)
         /\ NumberOf(AnswerExpiresIn) <= RefreshMargin =>
              ~CacheValid(access_token, token_expires, zoom_now)
    /\ (zoom_call.requests = 1 /\ TokenAnswer /\ ~IsNumber(AnswerExpiresIn)) =>
         /\ zoom_call.outcome = "raised"
         /\ access_token = AnswerToken
         /\ token_expires = zoom_call.token_expires

\* Token "A" was fetched with expires_in 90 and a later call, 30 seconds
\* before its token_expires, returned it from the cache.
C20_Witness ==
  /\ zoom_call.outcome = "cached"
  /\ zoom_call.requests = 0
  /\ zoom_call.ret = JStr(<<"A">>)
  /\ token_expires # JNull
  /\ zoom_call.at > 0
  /\ zoom_call.at = token_expires.n - 30


\* C17: runs of generate_meeting_report interleaved at the collaborator calls,
\* on one instance or on two, do not interfere: a step of a run writes the
\* local variables of that run's frame only, never a field of an instance nor
\* the frame of the other run, and a run that has ended has ended as the
\* same call does alone on the same argument with the same answers of the
\* collaborators.
C17_ParallelRunsIndependent ==
  /\ [](\A r \in Runs :
          par_pc[r] = "done" => par_out[r] = generate_meeting_report(par_in[r]))
  /\ [][\A place \in DOMAIN par_locals :
          par_locals'[place] # par_locals[place] =>
            place \in Runs /\ par_pc'[place] # par_pc[place]]_vars

\* Two runs on one instance, the first of the docs transcript and the second
\* of another, have both returned their reports.
C17_Witness ==
  /\ \A r \in Runs : par_pc[r] = "done" /\ par_out[r].outcome = "returned"
  /\ par_instance[1] = par_instance[2]
  /\ \A r \in Runs : K.transcription \in DOMAIN par_out[r].result.f
  /\ par_out[1].result.f[K.transcription].f[K.full_text] = JStr(Transcript.docs)
  /\ par_out[2].result.f[K.transcription].f[K.full_text] = JStr(Transcript.same)
  /\ par_out[1].result.f[K.action_items] # par_out[2].result.f[K.action_items]
====
